---- MODULE Spec2Model ----
(***************************************************************************)
(* Graph / workflow state machine of ads: nodes with draft and version     *)
(* semantics (graph/models.py, graph/crud.py, graph/finalize_helper.py),   *)
(* the auto-transition engine (graph/auto_workflow.py), the MCP tool       *)
(* handlers that drive them (mcp/tools/graph.py, mcp/tools/context.py,     *)
(* mcp/tools/workflow.py) and the persisted workflow context               *)
(* (workspace/context.py).                                                 *)
(***************************************************************************)
EXTENDS Integers, Sequences, FiniteSets, TLC

\* ---------------------------------------------------------------- bounds
MaxNodes == 2
MaxEdges == 1
MaxVersions == 2
\* graphs given to the read-only graph queries
MaxGraphNodes == 3
MaxGraphEdges == 3
MaxManageEdges == 2
MaxRaceVersions == 3
MaxStages == 8
MaxDriveVersions == 5
MaxEngineNodes == 4

NodeIds == 1..MaxNodes
EdgeIds == 1..MaxEdges

\* ------------------------------------------------------------- constants
\* Python None for a text column / an integer column / a node id
None == "<None>"
NoVersion == -1
NoNode == 0

\* text values: the content template text written by
\* create_workflow_from_template, and the texts callers pass (empty or not)
TemplateText == "TPL"
UserTexts == {"", "X"}
DraftTexts == {"D"}

\* node types given to GraphCRUD.create_node by callers
CreateTypes == {"design", "test"}
EdgeTypes == {"next"}
TemplateIds == {"standard"}
\* step names callers pass: the first two of the standard template and one
\* the active workflow never has
StepInputs == {"aggregate", "requirement", "report"}
StepNames == {"report", "analysis", "fix", "verify",
              "aggregate", "requirement", "design", "implementation"}

\* NodeTypeConfig.FLOW_RULES: next_type per node type (None = terminal)
FLOW_RULES_next_type ==
    [aggregate |-> "requirement", requirement |-> "design",
     design |-> "implementation", implementation |-> "test",
     test |-> None, integration_test |-> "code_review",
     code_review |-> "documentation", documentation |-> None,
     bug_report |-> "bug_analysis", bug_analysis |-> "bug_fix",
     bug_fix |-> "bug_verify", bug_verify |-> None]

\* NodeTypeConfig.FLOW_RULES: auto_generate per node type
FLOW_RULES_auto_generate ==
    [aggregate |-> FALSE, requirement |-> TRUE, design |-> TRUE,
     implementation |-> TRUE, test |-> FALSE, integration_test |-> TRUE,
     code_review |-> TRUE, documentation |-> FALSE, bug_report |-> TRUE,
     bug_analysis |-> TRUE, bug_fix |-> TRUE, bug_verify |-> FALSE]

\* NodeTypeConfig.get_next_config: the rule's next_type, None when the type
\* has no rule or the rule has no next type
get_next_type(t) ==
    IF t \in DOMAIN FLOW_RULES_next_type THEN FLOW_RULES_next_type[t] ELSE None

\* WorkflowContext.STEP_MAPPINGS, as ordered (step name, node type) pairs
STEP_MAPPINGS ==
    [bugfix |-> << <<"report", "bug_report">>, <<"analysis", "bug_analysis">>,
                   <<"fix", "bug_fix">>, <<"verify", "bug_verify">> >>,
     standard |-> << <<"aggregate", "aggregate">>, <<"requirement", "requirement">>,
                     <<"design", "design">>, <<"implementation", "implementation">> >>,
     feature |-> << <<"requirement", "requirement">>,
                    <<"implementation", "implementation">> >>]

\* config.yaml workflow_templates: node type of the first required step
TemplateFirstType(tpl) == STEP_MAPPINGS[tpl][1][2]

\* processes that run an operation step by step next to each other
Procs == {1, 2}

\* inflight[p]: the position of process p in the operation it runs and what
\* it has read so far; every operation that is not split into steps runs as
\* one step and leaves inflight alone
VARIABLES nodes, edges, versions, context, last, inflight
vars == <<nodes, edges, versions, context, last, inflight>>

Idle == [p \in Procs |-> [pc |-> "idle"]]

\* ---------------------------------------------------------------- helpers
\* bool(content and str(content).strip())
has_content(c) == c \notin {None, "", " "}

NodeExists(id) == id \in DOMAIN nodes

\* ids a caller or uuid4 can come up with, up to renaming of unused ids: an
\* id already in use (a collision) or the first unused one
FreshOrUsed(used, pool) ==
    used \cup {i \in pool \ used : \A j \in pool \ used : i <= j}

EdgeIdsUsed == {edges[i].id : i \in 1..Len(edges)}

\* rows of node_versions of one node, in insertion order
RECURSIVE SelectVersions(_, _)
SelectVersions(vs, id) ==
    IF vs = <<>> THEN <<>>
    ELSE IF Head(vs).node_id = id
         THEN <<Head(vs).version>> \o SelectVersions(Tail(vs), id)
         ELSE SelectVersions(Tail(vs), id)

\* context["active_workflow"] = None
NoWorkflow ==
    [workflow_id |-> NoNode, template |-> None,
     steps |-> [s \in StepNames |-> NoNode], current_step |-> None]

NoSteps == [s \in StepNames |-> NoNode]

\* WorkflowContext.load_context when no context file exists
EmptyContext ==
    [active_workflow_id |-> NoNode, active_workflow |-> NoWorkflow,
     workflows |-> <<>>]

\* what the last operation returned: its name, the node it addressed, its
\* outcome, the node it created and the ai_generation block of the
\* transition result
Result(op, id, ret, new, gen) ==
    [op |-> op, id |-> id, ret |-> ret, new |-> new, gen |-> gen]

Init ==
    /\ nodes = <<>>
    /\ edges = <<>>
    /\ versions = <<>>
    /\ context = EmptyContext
    /\ last = Result("init", NoNode, "ok", NoNode, None)
    /\ inflight = Idle

\* -------------------------------------------------- GraphCRUD.create_node
\* the Node row built by GraphCRUD.create_node; given = FALSE is is_draft=None
NewNodeRow(type, content, given, is_draft) ==
    LET is_draft_value == IF given THEN is_draft ELSE ~has_content(content)
    IN [type |-> type,
        content |-> content,
        draft_content |-> IF is_draft_value /\ has_content(content)
                          THEN content ELSE None,
        is_draft |-> is_draft_value,
        current_version |-> IF has_content(content) /\ ~is_draft_value
                            THEN 1 ELSE 0,
        draft_source_type |-> None,
        draft_based_on_version |-> NoVersion]

InsertNode(ns, id, row) ==
    [i \in DOMAIN ns \cup {id} |-> IF i = id THEN row ELSE ns[i]]

\* fault variant of create_node: a duplicate id replaces the stored row
\* (session.merge in place of session.add)
create_node_merge(id, type, content, given, is_draft) ==
    /\ nodes' = InsertNode(nodes, id, NewNodeRow(type, content, given, is_draft))
    /\ last' = Result("create_node", id, "ok", id, None)
    /\ UNCHANGED <<edges, versions, context>>

\* GraphCRUD.create_node called directly; a duplicate primary key makes the
\* flush raise and the session roll back
create_node(id, type, content, given, is_draft) ==
    /\ IF NodeExists(id)
       THEN /\ UNCHANGED nodes
            /\ last' = Result("create_node", id, "IntegrityError", NoNode, None)
       ELSE /\ nodes' = InsertNode(nodes, id, NewNodeRow(type, content, given, is_draft))
            /\ last' = Result("create_node", id, "ok", id, None)
    /\ UNCHANGED <<edges, versions, context>>

\* GraphCRUD.create_edge (also the body of the MCP create_edge tool)
NewEdgeRow(id, source, target, edge_type) ==
    [id |-> id, source |-> source, target |-> target, edge_type |-> edge_type]

create_edge(id, source, target, edge_type) ==
    /\ IF id \in EdgeIdsUsed
       THEN /\ UNCHANGED edges
            /\ last' = Result("create_edge", source, "IntegrityError", NoNode, None)
       ELSE /\ edges' = Append(edges, NewEdgeRow(id, source, target, edge_type))
            /\ last' = Result("create_edge", source, "ok", NoNode, None)
    /\ UNCHANGED <<nodes, versions, context>>

\* ------------------------------------------------ mcp/tools/graph.py tools
\* update_node(node_id, content, status): content = None and status = None
\* mean "argument not given"
update_node(id, content, status) ==
    /\ IF ~NodeExists(id)
       THEN /\ UNCHANGED nodes
            /\ last' = Result("update_node", id, "NotFound", NoNode, None)
       ELSE /\ nodes' = [nodes EXCEPT
                  ![id].content = IF content # None THEN content ELSE @,
                  ![id].is_draft = IF status # None THEN (status = "draft") ELSE @]
            /\ last' = Result("update_node", id, "ok", NoNode, None)
    /\ UNCHANGED <<edges, versions, context>>

\* finalize_node(node_id): GraphCRUD.update_node(node_id, {"is_draft": False})
finalize_node(id) ==
    /\ IF ~NodeExists(id)
       THEN /\ UNCHANGED nodes
            /\ last' = Result("finalize_node", id, "NotFound", NoNode, None)
       ELSE /\ nodes' = [nodes EXCEPT ![id].is_draft = FALSE]
            /\ last' = Result("finalize_node", id, "ok", NoNode, None)
    /\ UNCHANGED <<edges, versions, context>>

\* ------------------------------------------- GraphCRUD.get_parent_nodes
\* the while loop of get_parent_nodes, left iterations counted down: each
\* round takes the first edge into current_id that is no self-loop (rows in
\* insertion order) and stops on a missing or already seen parent
RECURSIVE ParentWalk(_, _, _, _, _, _, _)
RECURSIVE ParentWalkNoSeen(_, _, _, _, _, _, _)
RECURSIVE ParentWalkSelfEdges(_, _, _, _, _, _, _)
\* fault variant of the loop: the seen_ids test is gone
ParentWalkNoSeen(ns, es, current_id, seen_ids, parents, recursive, rounds) ==
    LET hits == {i \in 1..Len(es) :
                    es[i].target = current_id /\ es[i].source # current_id}
        parent == es[CHOOSE i \in hits : \A j \in hits : i <= j].source
    IN  IF rounds = 0 THEN [returned |-> FALSE, parents |-> parents]
        ELSE IF hits = {} THEN [returned |-> TRUE, parents |-> parents]
        ELSE IF parent \notin DOMAIN ns
             THEN [returned |-> TRUE, parents |-> parents]
        ELSE IF ~recursive
             THEN [returned |-> TRUE, parents |-> Append(parents, parent)]
        ELSE ParentWalkNoSeen(ns, es, parent, seen_ids \cup {parent},
                              Append(parents, parent), recursive, rounds - 1)

\* fault variant of the loop: the query lacks Edge.source != current_id, so
\* a self-loop on the current node is taken as its parent edge
ParentWalkSelfEdges(ns, es, current_id, seen_ids, parents, recursive, rounds) ==
    LET hits == {i \in 1..Len(es) : es[i].target = current_id}
        parent == es[CHOOSE i \in hits : \A j \in hits : i <= j].source
    IN  IF rounds = 0 THEN [returned |-> FALSE, parents |-> parents]
        ELSE IF hits = {} THEN [returned |-> TRUE, parents |-> parents]
        ELSE IF parent \notin DOMAIN ns \/ parent \in seen_ids
             THEN [returned |-> TRUE, parents |-> parents]
        ELSE IF ~recursive
             THEN [returned |-> TRUE, parents |-> Append(parents, parent)]
        ELSE ParentWalkSelfEdges(ns, es, parent, seen_ids \cup {parent},
                                 Append(parents, parent), recursive, rounds - 1)

ParentWalk(ns, es, current_id, seen_ids, parents, recursive, rounds) ==
    LET hits == {i \in 1..Len(es) :
                    es[i].target = current_id /\ es[i].source # current_id}
        parent == es[CHOOSE i \in hits : \A j \in hits : i <= j].source
    IN  IF rounds = 0 THEN [returned |-> FALSE, parents |-> parents]
        ELSE IF hits = {} THEN [returned |-> TRUE, parents |-> parents]
        ELSE IF parent \notin DOMAIN ns \/ parent \in seen_ids
             THEN [returned |-> TRUE, parents |-> parents]
        ELSE IF ~recursive
             THEN [returned |-> TRUE, parents |-> Append(parents, parent)]
        ELSE ParentWalk(ns, es, parent, seen_ids \cup {parent},
                        Append(parents, parent), recursive, rounds - 1)

\* rounds of the loop the model follows before it reports "not returned"
WalkRounds(ns) == Cardinality(DOMAIN ns) + 2

\* GraphCRUD.get_parent_nodes(node_id, recursive): the ids of the returned
\* nodes, and whether the loop ended
get_parent_nodes(ns, es, node_id, recursive) ==
    ParentWalk(ns, es, node_id, {}, <<>>, recursive, WalkRounds(ns))

\* --------------------------------------- AutoWorkflowEngine (auto_workflow.py)
\* AutoWorkflowEngine._find_next_node: the first target of an outgoing,
\* non-self edge of parent_id whose node exists and has type next_type
RECURSIVE FindNextFrom(_, _, _, _, _)
FindNextFrom(ns, es, i, parent_id, next_type) ==
    IF i > Len(es) THEN NoNode
    ELSE IF /\ es[i].source = parent_id
            /\ es[i].target # parent_id
            /\ es[i].target \in DOMAIN ns
            /\ ns[es[i].target].type = next_type
         THEN es[i].target
         ELSE FindNextFrom(ns, es, i + 1, parent_id, next_type)

\* fault variant of _find_next_node: only "next" edges are scanned, so the
\* "references" edge written by _create_next_node is not seen
find_next_node_next_edges(ns, es, parent_id, next_type) ==
    LET hits == {i \in 1..Len(es) :
                    /\ es[i].source = parent_id
                    /\ es[i].edge_type = "next"
                    /\ es[i].target # parent_id
                    /\ es[i].target \in DOMAIN ns
                    /\ ns[es[i].target].type = next_type}
    IN  IF hits = {} THEN NoNode
        ELSE es[CHOOSE i \in hits : \A j \in hits : i <= j].target

find_next_node(ns, es, parent_id, next_type) ==
    FindNextFrom(ns, es, 1, parent_id, next_type)

\* NodeTypeConfig.FLOW_RULES: the {slots} each ai_prompt_template names
FLOW_RULES_prompt_slots ==
    [aggregate |-> {}, requirement |-> {"parent_content"},
     design |-> {"parent_content", "requirement_content"},
     implementation |-> {"parent_content", "requirement_content", "design_content"},
     test |-> {},
     integration_test |-> {"parent_content", "implementation_content"},
     code_review |-> {"parent_content", "requirement_content", "design_content",
                      "implementation_content"},
     documentation |-> {},
     bug_report |-> {"parent_content"},
     bug_analysis |-> {"parent_content", "bug_report_content"},
     bug_fix |-> {"parent_content"}, bug_verify |-> {}]

\* the placeholder written for a slot without content
Placeholder == "无"

\* the keyword arguments of the second prompt_template.format call
FallbackSlots ==
    {"parent_content", "requirement_content", "design_content", "bug_report_content"}

\* _build_ai_prompt, the loop over the ancestors: the value the last ancestor
\* of the given type leaves (content or "无"), None when there is no such
\* ancestor
AncestorContent(ns, parents, type) ==
    LET hits == {i \in 1..Len(parents) : ns[parents[i]].type = type}
        c == ns[parents[CHOOSE i \in hits : \A j \in hits : j <= i]].content
    IN  IF hits = {} THEN None
        ELSE IF c = None \/ c = "" THEN Placeholder ELSE c

\* _build_ai_prompt: the context dict, None for a key that is not set
PromptContext(ns, es, node_id) ==
    LET parents == get_parent_nodes(ns, es, node_id, TRUE).parents
        requirement == AncestorContent(ns, parents, "requirement")
        aggregate == AncestorContent(ns, parents, "aggregate")
    IN  [parent_content |-> ns[node_id].content,
         requirement_content |-> IF requirement = None THEN aggregate
                                 ELSE requirement,
         design_content |-> AncestorContent(ns, parents, "design"),
         bug_report_content |-> AncestorContent(ns, parents, "bug_report")]

\* _build_ai_prompt(parent_node, flow_config): raised = the KeyError of the
\* second format call escapes; otherwise the text, as the value put in each
\* slot of the template (no slots for the empty template, which returns "")
\* and the project rules appended
build_ai_prompt(ns, es, node_id, rules) ==
    LET slots == IF ns[node_id].type \in DOMAIN FLOW_RULES_prompt_slots
                 THEN FLOW_RULES_prompt_slots[ns[node_id].type]
                 ELSE {}
        ctx == PromptContext(ns, es, node_id)
        set == {k \in DOMAIN ctx : ctx[k] # None}
    IN  IF slots = {} THEN [raised |-> FALSE, text |-> <<>>, rules |-> ""]
        ELSE IF slots \subseteq set
             THEN [raised |-> FALSE, text |-> [k \in slots |-> ctx[k]],
                   rules |-> rules]
        ELSE IF slots \subseteq FallbackSlots
             THEN [raised |-> FALSE,
                   text |-> [k \in slots |->
                               IF ctx[k] # None THEN ctx[k] ELSE Placeholder],
                   rules |-> rules]
        ELSE [raised |-> TRUE, text |-> <<>>, rules |-> ""]

\* fault variant of GenerationBlock: the prompt is built without looking at
\* the parent's content
GenerationBlockNoEmptyTest(ns, es, node_id, enable_ai) ==
    IF enable_ai /\ FLOW_RULES_auto_generate[ns[node_id].type]
    THEN IF build_ai_prompt(ns, es, node_id, "").raised
         THEN "generation_error"
         ELSE "enabled"
    ELSE "absent"

\* fault variant of GenerationBlock: a failed prompt construction leaves the
\* result without a generation block
GenerationBlockSilent(ns, es, node_id, enable_ai) ==
    IF enable_ai /\ FLOW_RULES_auto_generate[ns[node_id].type]
       /\ ~has_content(ns[node_id].content)
    THEN "parent_node_empty"
    ELSE IF enable_ai /\ FLOW_RULES_auto_generate[ns[node_id].type]
            /\ ~build_ai_prompt(ns, es, node_id, "").raised
    THEN "enabled"
    ELSE "absent"

\* fault variant of GenerationBlock: the emptiness test reads the pending
\* draft of the parent when there is one
GenerationBlockDraft(ns, es, node_id, enable_ai) ==
    IF enable_ai /\ FLOW_RULES_auto_generate[ns[node_id].type]
    THEN IF ~has_content(IF ns[node_id].draft_content # None
                         THEN ns[node_id].draft_content
                         ELSE ns[node_id].content)
         THEN "parent_node_empty"
         ELSE IF build_ai_prompt(ns, es, node_id, "").raised
              THEN "generation_error"
              ELSE "enabled"
    ELSE "absent"

\* the ai_generation block on_node_finalized puts in its result
GenerationBlock(ns, es, node_id, enable_ai) ==
    IF enable_ai /\ FLOW_RULES_auto_generate[ns[node_id].type]
    THEN IF ~has_content(ns[node_id].content) THEN "parent_node_empty"
         ELSE IF build_ai_prompt(ns, es, node_id, "").raised
              THEN "generation_error"
              ELSE "enabled"
    ELSE "absent"

\* fault variant of the early returns: a missing rule or next type does not
\* stop the call
CreatesSuccessorAlways(ns, es, node_id) ==
    /\ node_id \in DOMAIN ns
    /\ find_next_node(ns, es, node_id, get_next_type(ns[node_id].type)) = NoNode

\* on_node_finalized up to its idempotence check: TRUE when the call goes on
\* to create a successor (the node exists, its rule has a next type and no
\* target of that type is found)
CreatesSuccessor(ns, es, node_id) ==
    /\ node_id \in DOMAIN ns
    /\ get_next_type(ns[node_id].type) # None
    /\ find_next_node(ns, es, node_id, get_next_type(ns[node_id].type)) = NoNode

\* the uuid-derived ids on_node_finalized draws: none when it creates nothing
NewNodeIds(ns, es, node_id) ==
    IF CreatesSuccessor(ns, es, node_id) THEN FreshOrUsed(DOMAIN ns, NodeIds)
    ELSE {NoNode}

NewEdgeIds(ns, es, node_id) ==
    IF CreatesSuccessor(ns, es, node_id)
    THEN FreshOrUsed({es[i].id : i \in 1..Len(es)}, EdgeIds)
    ELSE {NoNode}

\* fault variant of the transition: an exception of _build_ai_prompt is not
\* caught, so the call raises after the node and the edge were stored
TransitionPromptFatal(ns, es, node_id, enable_ai, nid, eid) ==
    LET unchanged(ret) ==
            [nodes |-> ns, edges |-> es, ret |-> ret, new |-> NoNode, gen |-> None]
    IN  IF ~CreatesSuccessor(ns, es, node_id) THEN unchanged("None")
        ELSE IF nid \in DOMAIN ns THEN unchanged("raised")
        ELSE LET next_type == get_next_type(ns[node_id].type)
                 ns2 == InsertNode(ns, nid, NewNodeRow(next_type, "", TRUE, TRUE))
                 es2 == Append(es, NewEdgeRow(eid, node_id, nid, "references"))
                 gen == GenerationBlock(ns2, es2, node_id, enable_ai)
             IN  IF eid \in {es[i].id : i \in 1..Len(es)}
                 THEN [nodes |-> ns2, edges |-> es, ret |-> "raised",
                       new |-> NoNode, gen |-> None]
                 ELSE IF gen = "generation_error"
                 THEN [nodes |-> ns2, edges |-> es2, ret |-> "raised",
                       new |-> NoNode, gen |-> None]
                 ELSE [nodes |-> ns2, edges |-> es2,
                       ret |-> "created", new |-> nid, gen |-> gen]

\* AutoWorkflowEngine.on_node_finalized with _create_next_node inlined, as a
\* function of the store: nid and eid are the uuid-derived ids of the new
\* node and edge.  create_node and create_edge commit in sessions of their
\* own, so a failing create_edge leaves the new node behind.
Transition(ns, es, node_id, enable_ai, nid, eid) ==
    LET unchanged(ret) ==
            [nodes |-> ns, edges |-> es, ret |-> ret, new |-> NoNode, gen |-> None]
    IN  IF ~CreatesSuccessor(ns, es, node_id) THEN unchanged("None")
        ELSE IF nid \in DOMAIN ns THEN unchanged("raised")
        ELSE LET node == ns[node_id]
                 next_type == get_next_type(node.type)
                 ns2 == InsertNode(ns, nid, NewNodeRow(next_type, "", TRUE, TRUE))
             IN  IF eid \in {es[i].id : i \in 1..Len(es)}
                 THEN [nodes |-> ns2, edges |-> es, ret |-> "raised",
                       new |-> NoNode, gen |-> None]
                 ELSE LET es2 == Append(es, NewEdgeRow(eid, node_id, nid, "references"))
                      IN  [nodes |-> ns2, edges |-> es2,
                           ret |-> "created", new |-> nid,
                           gen |-> GenerationBlock(ns2, es2, node_id, enable_ai)]

on_node_finalized(node_id, enable_ai) ==
    \E nid \in NewNodeIds(nodes, edges, node_id),
       eid \in NewEdgeIds(nodes, edges, node_id) :
        LET t == Transition(nodes, edges, node_id, enable_ai, nid, eid)
        IN  /\ nodes' = t.nodes
            /\ edges' = t.edges
            /\ last' = Result("on_node_finalized", node_id, t.ret, t.new, t.gen)
            /\ UNCHANGED <<versions, context>>

\* ------------------------------------------- WorkflowContext (context.py)
\* WorkflowContext._normalize_context
normalize_context(ctx) ==
    LET id1 == IF ctx.active_workflow_id = NoNode /\ ctx.active_workflow # NoWorkflow
               THEN ctx.active_workflow.workflow_id
               ELSE ctx.active_workflow_id
        aw1 == IF ctx.active_workflow = NoWorkflow /\ id1 # NoNode
               THEN IF id1 \in DOMAIN ctx.workflows
                    THEN [workflow_id |-> id1,
                          template |-> ctx.workflows[id1].template,
                          steps |-> ctx.workflows[id1].steps,
                          current_step |-> ctx.workflows[id1].current_step]
                    ELSE NoWorkflow
               ELSE ctx.active_workflow
    IN  IF aw1 # NoWorkflow /\ aw1.workflow_id # NoNode
        THEN [active_workflow_id |-> aw1.workflow_id,
              active_workflow |-> aw1,
              workflows |-> [w \in DOMAIN ctx.workflows \cup {aw1.workflow_id} |->
                  IF w = aw1.workflow_id
                  THEN [template |-> aw1.template, steps |-> aw1.steps,
                        current_step |-> aw1.current_step]
                  ELSE ctx.workflows[w]]]
        ELSE [active_workflow_id |-> id1, active_workflow |-> aw1,
              workflows |-> ctx.workflows]

\* WorkflowContext.get_active_workflow
get_active_workflow(ctx) == normalize_context(ctx).active_workflow

\* first step name of STEP_MAPPINGS[template] whose node type is type
RECURSIVE StepFrom(_, _, _)
StepFrom(mapping, i, type) ==
    IF i > Len(mapping) THEN None
    ELSE IF mapping[i][2] = type THEN mapping[i][1]
    ELSE StepFrom(mapping, i + 1, type)

StepForType(template, type) ==
    IF template \in DOMAIN STEP_MAPPINGS
    THEN StepFrom(STEP_MAPPINGS[template], 1, type)
    ELSE None

\* WorkflowContext.update_current_step
update_current_step(ctx0, step_name) ==
    LET ctx == normalize_context(ctx0)
        active_id == ctx.active_workflow_id
    IN  IF active_id = NoNode THEN ctx0
        ELSE normalize_context(
            [ctx EXCEPT
               !.active_workflow =
                   IF @ # NoWorkflow THEN [@ EXCEPT !.current_step = step_name] ELSE @,
               !.workflows =
                   IF active_id \in DOMAIN @
                   THEN [@ EXCEPT ![active_id].current_step = step_name] ELSE @])

\* WorkflowContext.add_workflow_step
add_workflow_step(ctx0, step_name, node_id) ==
    LET ctx == normalize_context(ctx0)
        active_id == ctx.active_workflow_id
        aw == IF ctx.active_workflow = NoWorkflow
              THEN [NoWorkflow EXCEPT !.workflow_id = active_id]
              ELSE ctx.active_workflow
        old == IF active_id \in DOMAIN ctx.workflows
               THEN ctx.workflows[active_id]
               ELSE [template |-> None, steps |-> NoSteps, current_step |-> None]
    IN  IF active_id = NoNode THEN ctx0
        ELSE normalize_context(
            [active_workflow_id |-> active_id,
             active_workflow |->
                 [aw EXCEPT !.steps[step_name] = node_id, !.current_step = step_name],
             workflows |-> [w \in DOMAIN ctx.workflows \cup {active_id} |->
                 IF w = active_id
                 THEN [old EXCEPT !.steps[step_name] = node_id,
                                  !.current_step = step_name]
                 ELSE ctx.workflows[w]]])

\* the first key of a steps dict built in STEP_MAPPINGS order
RECURSIVE FirstStepFrom(_, _, _)
FirstStepFrom(mapping, i, steps) ==
    IF i > Len(mapping) THEN None
    ELSE IF steps[mapping[i][1]] # NoNode THEN mapping[i][1]
    ELSE FirstStepFrom(mapping, i + 1, steps)

\* WorkflowContext.set_active_workflow, called with a template of
\* STEP_MAPPINGS and the steps found for it
set_active_workflow(ctx0, workflow_root_id, template, steps) ==
    LET ctx == normalize_context(ctx0)
        known == workflow_root_id \in DOMAIN ctx.workflows
        new_steps == IF steps # NoSteps THEN steps
                     ELSE IF known THEN ctx.workflows[workflow_root_id].steps
                     ELSE NoSteps
        old_step == IF known THEN ctx.workflows[workflow_root_id].current_step
                    ELSE None
        current_step == IF old_step # None THEN old_step
                        ELSE IF template \in DOMAIN STEP_MAPPINGS
                        THEN FirstStepFrom(STEP_MAPPINGS[template], 1, steps)
                        ELSE None
        entry == [template |-> template, steps |-> new_steps,
                  current_step |-> current_step]
    IN  normalize_context(
            [active_workflow_id |-> workflow_root_id,
             active_workflow |->
                 [workflow_id |-> workflow_root_id, template |-> template,
                  steps |-> new_steps, current_step |-> current_step],
             workflows |-> [w \in DOMAIN ctx.workflows \cup {workflow_root_id} |->
                 IF w = workflow_root_id THEN entry ELSE ctx.workflows[w]]])

\* --------------------------------------- mcp/tools/context.py step tools
\* fault variant of update_step_draft: the source of a first draft is
\* "manual_created" whatever the current version
update_step_draft_created(step_name, content) ==
    LET workflow == get_active_workflow(context)
        node_id == workflow.steps[step_name]
        fail(ret) ==
            /\ last' = Result("update_step_draft", node_id, ret, NoNode, None)
            /\ UNCHANGED <<nodes, context>>
    IN  /\ UNCHANGED <<edges, versions>>
        /\ IF workflow = NoWorkflow THEN fail("no_active_workflow")
           ELSE IF node_id = NoNode THEN fail("no_step")
           ELSE IF ~NodeExists(node_id) THEN fail("NotFound")
           ELSE LET node == nodes[node_id]
                    first == node.draft_source_type = None
                IN  /\ nodes' = [nodes EXCEPT ![node_id] =
                          [node EXCEPT
                             !.draft_content = content,
                             !.is_draft = TRUE,
                             !.draft_source_type =
                                 IF ~first THEN @ ELSE "manual_created"]]
                    /\ context' = update_current_step(context, step_name)
                    /\ last' = Result("update_step_draft", node_id, "ok", NoNode, None)

\* fault variant of update_step_draft: the text is written to the finalized
\* content as well
update_step_draft_content(step_name, content) ==
    LET workflow == get_active_workflow(context)
        node_id == workflow.steps[step_name]
        fail(ret) ==
            /\ last' = Result("update_step_draft", node_id, ret, NoNode, None)
            /\ UNCHANGED <<nodes, context>>
    IN  /\ UNCHANGED <<edges, versions>>
        /\ IF workflow = NoWorkflow THEN fail("no_active_workflow")
           ELSE IF node_id = NoNode THEN fail("no_step")
           ELSE IF ~NodeExists(node_id) THEN fail("NotFound")
           ELSE LET node == nodes[node_id]
                    first == node.draft_source_type = None
                IN  /\ nodes' = [nodes EXCEPT ![node_id] =
                          [node EXCEPT
                             !.content = content,
                             !.draft_content = content,
                             !.is_draft = TRUE,
                             !.draft_source_type =
                                 IF ~first THEN @
                                 ELSE IF node.current_version = 0
                                      THEN "manual_created" ELSE "manual_modified",
                             !.draft_based_on_version =
                                 IF first /\ node.current_version # 0
                                 THEN node.current_version ELSE @]]
                    /\ context' = update_current_step(context, step_name)
                    /\ last' = Result("update_step_draft", node_id, "ok", NoNode, None)

\* update_step_draft(step_name, content)
update_step_draft(step_name, content) ==
    LET workflow == get_active_workflow(context)
        node_id == workflow.steps[step_name]
        fail(ret) ==
            /\ last' = Result("update_step_draft", node_id, ret, NoNode, None)
            /\ UNCHANGED <<nodes, context>>
    IN  /\ UNCHANGED <<edges, versions>>
        /\ IF workflow = NoWorkflow THEN fail("no_active_workflow")
           ELSE IF node_id = NoNode THEN fail("no_step")
           ELSE IF ~NodeExists(node_id) THEN fail("NotFound")
           ELSE LET node == nodes[node_id]
                    first == node.draft_source_type = None
                IN  /\ nodes' = [nodes EXCEPT ![node_id] =
                          [node EXCEPT
                             !.draft_content = content,
                             !.is_draft = TRUE,
                             !.draft_source_type =
                                 IF ~first THEN @
                                 ELSE IF node.current_version = 0
                                      THEN "manual_created" ELSE "manual_modified",
                             !.draft_based_on_version =
                                 IF first /\ node.current_version # 0
                                 THEN node.current_version ELSE @]]
                    /\ context' = update_current_step(context, step_name)
                    /\ last' = Result("update_step_draft", node_id, "ok", NoNode, None)

\* finalize_helper.create_node_version: the appended node_versions row
create_node_version(node_id, node) ==
    [node_id |-> node_id,
     version |-> node.current_version + 1,
     content |-> node.draft_content,
     source_type |-> node.draft_source_type,
     based_on_version |-> node.draft_based_on_version]

\* fault variant of update_node_content: the version is bumped, the draft is
\* not copied into content
update_node_content_keep(node, new_version) ==
    [node EXCEPT !.current_version = new_version]

\* finalize_helper.update_node_content
update_node_content(node, new_version) ==
    [node EXCEPT !.content = node.draft_content, !.current_version = new_version]

\* finalize_helper.clear_draft
clear_draft(node) ==
    [node EXCEPT !.draft_content = None, !.draft_source_type = None,
                 !.draft_based_on_version = NoVersion, !.is_draft = FALSE]

\* fault variant of validate_node_for_finalization: the is_draft test is gone
validate_node_exists_only(ns, node_id) ==
    IF node_id \notin DOMAIN ns THEN "NotFound" ELSE "ok"

\* finalize_helper.validate_node_for_finalization: the exception raised, or "ok"
validate_node_for_finalization(ns, node_id) ==
    IF node_id \notin DOMAIN ns THEN "NotFound"
    ELSE IF ~ns[node_id].is_draft THEN "InvalidOperation"
    ELSE "ok"

\* finalize_step(step_name): file_ok is the outcome of save_node_to_file.  The
\* NOT NULL columns of node_versions (content, source_type) make the commit
\* raise when the draft has no content or no source type.
finalize_step(step_name, file_ok) ==
    LET workflow == get_active_workflow(context)
        node_id == workflow.steps[step_name]
        valid == validate_node_for_finalization(nodes, node_id)
        fail(ret) ==
            /\ last' = Result("finalize_step", node_id, ret, NoNode, None)
            /\ UNCHANGED <<nodes, edges, versions, context>>
    IN  /\ Len(versions) < MaxVersions
        /\ IF workflow = NoWorkflow THEN fail("no_active_workflow")
           ELSE IF node_id = NoNode THEN fail("no_step")
           ELSE IF valid # "ok" THEN fail(valid)
           ELSE IF ~file_ok THEN fail("IOError")
           ELSE LET node == nodes[node_id]
                    version == create_node_version(node_id, node)
                    committed == [nodes EXCEPT ![node_id] =
                                     clear_draft(update_node_content(node, version.version))]
                IN  IF version.content = None \/ version.source_type = None
                    THEN fail("IntegrityError")
                    ELSE \E nid \in NewNodeIds(committed, edges, node_id),
                            eid \in NewEdgeIds(committed, edges, node_id) :
                         LET t == Transition(committed, edges, node_id, TRUE, nid, eid)
                             step == IF t.ret = "created"
                                     THEN StepForType(workflow.template,
                                                      t.nodes[t.new].type)
                                     ELSE None
                         IN  /\ versions' = Append(versions, version)
                             /\ nodes' = t.nodes
                             /\ edges' = t.edges
                             /\ context' = IF step # None
                                           THEN add_workflow_step(context, step, t.new)
                                           ELSE context
                             /\ last' = Result("finalize_step", node_id,
                                               IF t.ret = "raised"
                                               THEN "engine_error" ELSE "ok",
                                               t.new, t.gen)

\* ------------------------------- mcp/tools/workflow.py workflow creation
\* create_workflow_from_template(template_id, title, description): id is the
\* generated id of the first node, content the description with the rules
\* summary appended
create_workflow_from_template(template_id, content, id) ==
    LET type == TemplateFirstType(template_id)
        row == NewNodeRow(type, content, TRUE, FALSE)
        synced == IF row.content = "" \/ row.content = " "
                  THEN [row EXCEPT !.content =
                           IF content = "" THEN TemplateText ELSE content]
                  ELSE row
        step == StepForType(template_id, type)
        steps == IF step # None THEN [NoSteps EXCEPT ![step] = id] ELSE NoSteps
    IN  /\ UNCHANGED <<edges, versions>>
        /\ IF NodeExists(id)
           THEN /\ last' = Result("create_workflow_from_template", id,
                                  "IntegrityError", NoNode, None)
                /\ UNCHANGED <<nodes, context>>
           ELSE /\ nodes' = InsertNode(nodes, id, synced)
                /\ context' = set_active_workflow(context, id, template_id, steps)
                /\ last' = Result("create_workflow_from_template", id, "ok", id, None)

\* a call of get_parent_nodes on the stored graph
get_parent_nodes_call(node_id, recursive) ==
    LET r == get_parent_nodes(nodes, edges, node_id, recursive)
    IN  /\ last' = [op |-> "get_parent_nodes", id |-> node_id,
                    recursive |-> recursive, returned |-> r.returned,
                    parents |-> r.parents]
        /\ UNCHANGED <<nodes, edges, versions, context>>

\* stored graphs the query is run on: any nodes, any edges between ids
\* (dangling ends, self-loops, parallel edges and cycles included), in any
\* insertion order
GraphNodeIds == 1..MaxGraphNodes
GraphTypes == {"requirement"}

GraphEdgeLists ==
    UNION {[1..n -> GraphNodeIds \X GraphNodeIds] : n \in 0..MaxGraphEdges}

InitParents ==
    /\ nodes \in UNION {[D -> {NewNodeRow(t, "", TRUE, FALSE) : t \in GraphTypes}] :
                           D \in SUBSET GraphNodeIds}
    /\ \E l \in GraphEdgeLists :
          edges = [i \in 1..Len(l) |-> NewEdgeRow(i, l[i][1], l[i][2], "next")]
    /\ versions = <<>>
    /\ context = EmptyContext
    /\ last = Result("init", NoNode, "ok", NoNode, None)
    /\ inflight = Idle

NextParents ==
    \E id \in GraphNodeIds, r \in BOOLEAN :
        get_parent_nodes_call(id, r) /\ UNCHANGED inflight

SpecParents == InitParents /\ [][NextParents]_vars

\* ------------------------- ancestor lookups (aggregate_helper, finalize_helper)
\* aggregate_helper.find_aggregate_ancestor(node_id, db): the for loop over
\* the edges into node_id from row i on, with the recursive call on every
\* parent that is no aggregate; depth is the number of frames left before
\* the interpreter raises RecursionError (returned = FALSE)
RECURSIVE AggregateScan(_, _, _, _, _)
AggregateScan(ns, es, node_id, i, depth) ==
    IF depth = 0 THEN [returned |-> FALSE, found |-> NoNode]
    ELSE IF i > Len(es) THEN [returned |-> TRUE, found |-> NoNode]
    ELSE IF es[i].target # node_id \/ es[i].source \notin DOMAIN ns
         THEN AggregateScan(ns, es, node_id, i + 1, depth)
    ELSE IF ns[es[i].source].type = "aggregate"
         THEN [returned |-> TRUE, found |-> es[i].source]
    ELSE LET ancestor == AggregateScan(ns, es, es[i].source, 1, depth - 1)
         IN  IF ~ancestor.returned \/ ancestor.found # NoNode
             THEN ancestor
             ELSE AggregateScan(ns, es, node_id, i + 1, depth)

\* frames after which a node is on the call stack twice, so that the
\* recursion never ends
RecursionDepth(ns) == Cardinality(DOMAIN ns) + 2

aggregate_helper_find_aggregate_ancestor(ns, es, node_id) ==
    AggregateScan(ns, es, node_id, 1, RecursionDepth(ns))

\* the first stored edge into current_id (self-loops included), 0 if none
FirstParentEdge(es, current_id) ==
    LET hits == {i \in 1..Len(es) : es[i].target = current_id}
    IN  IF hits = {} THEN 0 ELSE CHOOSE i \in hits : \A j \in hits : i <= j

\* default of the max_depth parameter of both finalize_helper lookups
max_depth == 10

\* finalize_helper.find_aggregate_ancestor(db, node_id): the for loop, with
\* the rounds left of range(max_depth)
RECURSIVE AggregateWalk(_, _, _, _, _)
AggregateWalk(ns, es, current_id, visited, rounds) ==
    LET e == FirstParentEdge(es, current_id)
    IN  IF rounds = 0 \/ current_id \in visited
        THEN [returned |-> TRUE, found |-> NoNode]
        ELSE IF e = 0 THEN [returned |-> TRUE, found |-> NoNode]
        ELSE IF es[e].source \notin DOMAIN ns
             THEN [returned |-> TRUE, found |-> NoNode]
        ELSE IF ns[es[e].source].type = "aggregate"
             THEN [returned |-> TRUE, found |-> es[e].source]
        ELSE AggregateWalk(ns, es, es[e].source, visited \cup {current_id},
                           rounds - 1)

finalize_helper_find_aggregate_ancestor(ns, es, node_id) ==
    AggregateWalk(ns, es, node_id, {}, max_depth)

\* finalize_helper.find_root_node(db, node_id): the for loop; the node
\* without a parent edge is returned if it is stored
RECURSIVE RootWalk(_, _, _, _, _)
RootWalk(ns, es, current_id, visited, rounds) ==
    LET e == FirstParentEdge(es, current_id)
    IN  IF rounds = 0 \/ current_id \in visited
        THEN [returned |-> TRUE, found |-> NoNode]
        ELSE IF e = 0
             THEN [returned |-> TRUE,
                   found |-> IF current_id \in DOMAIN ns THEN current_id
                             ELSE NoNode]
        ELSE RootWalk(ns, es, es[e].source, visited \cup {current_id},
                      rounds - 1)

find_root_node(ns, es, node_id) == RootWalk(ns, es, node_id, {}, max_depth)

\* one lookup run on the stored graph
ancestor_lookup(op, node_id) ==
    LET r == CASE op = "aggregate_helper.find_aggregate_ancestor"
                    -> aggregate_helper_find_aggregate_ancestor(nodes, edges, node_id)
               [] op = "finalize_helper.find_aggregate_ancestor"
                    -> finalize_helper_find_aggregate_ancestor(nodes, edges, node_id)
               [] OTHER -> find_root_node(nodes, edges, node_id)
    IN  /\ last' = [op |-> op, id |-> node_id, returned |-> r.returned,
                    found |-> r.found]
        /\ UNCHANGED <<nodes, edges, versions, context>>

AncestorTypes == {"aggregate", "requirement"}

InitAncestors ==
    /\ nodes \in UNION {[D -> {NewNodeRow(t, "", TRUE, FALSE) : t \in AncestorTypes}] :
                           D \in SUBSET GraphNodeIds}
    /\ \E l \in GraphEdgeLists :
          edges = [i \in 1..Len(l) |-> NewEdgeRow(i, l[i][1], l[i][2], "next")]
    /\ versions = <<>>
    /\ context = EmptyContext
    /\ last = Result("init", NoNode, "ok", NoNode, None)
    /\ inflight = Idle

NextAncestors ==
    \/ \E id \in GraphNodeIds :
          ancestor_lookup("aggregate_helper.find_aggregate_ancestor", id)
             /\ UNCHANGED inflight
    \/ \E id \in GraphNodeIds :
          ancestor_lookup("finalize_helper.find_aggregate_ancestor", id)
             /\ UNCHANGED inflight
    \/ \E id \in GraphNodeIds :
          ancestor_lookup("find_root_node", id) /\ UNCHANGED inflight

SpecAncestors == InitAncestors /\ [][NextAncestors]_vars

\* --------------------- workflow management (list, checkout, delete, status)
\* node.label of the stored nodes, one title per node
Label == [i \in GraphNodeIds |-> IF i = 1 THEN "bug" ELSE IF i = 2 THEN "login"
                                 ELSE "debug"]

\* the texts a caller passes as identifier, next to node ids
IdentTexts == {"bug", "gin"}

\* workflow_identifier.lower() in title.lower()
TitleContains(title, text) ==
    \/ title = text
    \/ title = "debug" /\ text = "bug"
    \/ title = "login" /\ text = "gin"

\* an identifier is a node id or a text that is not a number
Identifiers ==
    [kind : {"id"}, id : GraphNodeIds, text : {""}]
        \cup [kind : {"text"}, id : {NoNode}, text : IdentTexts]

\* WorkflowContext.TYPE_KEYWORDS.get(identifier.lower())
TYPE_KEYWORDS(text) ==
    IF text \in {"bug", "bugfix"} THEN "bugfix"
    ELSE IF text = "standard" THEN "standard"
    ELSE IF text = "feature" THEN "feature"
    ELSE None

\* the root list_all_workflows and switch_workflow give a node: the last
\* node of its recursive parent walk, the node itself when the walk is empty
RootOf(ns, es, id) ==
    LET parents == get_parent_nodes(ns, es, id, TRUE).parents
    IN  IF parents # <<>> THEN parents[Len(parents)] ELSE id

\* list_all_workflows: the template guessed from the node types of a
\* workflow whose root carries no workflow_template metadata
InferTemplate(types) ==
    IF {"bug_report", "bug_analysis", "bug_fix", "bug_verify"} \cap types # {}
    THEN "bugfix"
    ELSE IF {"aggregate", "requirement", "design", "implementation"} \subseteq types
    THEN "standard"
    ELSE IF "feature" \in types THEN "feature"
    ELSE "unknown"

\* the nodes list_all_workflows and switch_workflow group under root_id
WorkflowNodes(ns, es, root_id) ==
    {n \in DOMAIN ns : RootOf(ns, es, n) = root_id}

\* WorkflowContext.list_all_workflows: the entries by workflow_id
list_all_workflows(ns, es) ==
    [r \in {RootOf(ns, es, n) : n \in DOMAIN ns} |->
        [workflow_id |-> r,
         template |-> InferTemplate({ns[n].type : n \in WorkflowNodes(ns, es, r)}),
         title |-> Label[r]]]

\* the first entry of a set of entries in list order (created_at descending;
\* stored nodes are numbered in creation order)
FirstListed(ids) == CHOOSE i \in ids : \A j \in ids : j <= i

\* fault variant of the matching: several workflows of the keyword's
\* template are resolved to the first one
MatchWorkflowFirst(all, ident) ==
    LET by_id == {w \in DOMAIN all : ident.kind = "id" /\ w = ident.id}
        by_title == {w \in DOMAIN all :
                        ident.kind = "text" /\ all[w].title = ident.text}
        template_type == IF ident.kind = "text" THEN TYPE_KEYWORDS(ident.text)
                         ELSE None
        matches == IF template_type = None THEN {}
                   ELSE {w \in DOMAIN all : all[w].template = template_type}
        fuzzy == {w \in DOMAIN all :
                     ident.kind = "text" /\ TitleContains(all[w].title, ident.text)}
        found(w) == [success |-> TRUE, matched |-> w, matches |-> {}]
        failed(ms) == [success |-> FALSE, matched |-> NoNode, matches |-> ms]
    IN  IF DOMAIN all = {} THEN failed({})
        ELSE IF by_id # {} THEN found(FirstListed(by_id))
        ELSE IF by_title # {} THEN found(FirstListed(by_title))
        ELSE IF matches # {} THEN found(FirstListed(matches))
        ELSE IF fuzzy # {} THEN found(FirstListed(fuzzy))
        ELSE failed({})

\* switch_workflow, steps 1 to 4: the entry matched, or the reason for none
MatchWorkflow(all, ident) ==
    LET by_id == {w \in DOMAIN all : ident.kind = "id" /\ w = ident.id}
        by_title == {w \in DOMAIN all :
                        ident.kind = "text" /\ all[w].title = ident.text}
        template_type == IF ident.kind = "text" THEN TYPE_KEYWORDS(ident.text)
                         ELSE None
        matches == IF template_type = None THEN {}
                   ELSE {w \in DOMAIN all : all[w].template = template_type}
        fuzzy == {w \in DOMAIN all :
                     ident.kind = "text" /\ TitleContains(all[w].title, ident.text)}
        found(w) == [success |-> TRUE, matched |-> w, matches |-> {}]
        failed(ms) == [success |-> FALSE, matched |-> NoNode, matches |-> ms]
    IN  IF DOMAIN all = {} THEN failed({})
        ELSE IF by_id # {} THEN found(FirstListed(by_id))
        ELSE IF by_title # {} THEN found(FirstListed(by_title))
        ELSE IF Cardinality(matches) = 1 THEN found(FirstListed(matches))
        ELSE IF Cardinality(matches) > 1 THEN failed(matches)
        ELSE IF fuzzy # {} THEN found(FirstListed(fuzzy))
        ELSE failed({})

\* switch_workflow: the steps rebuilt for the matched workflow, the first
\* node (in get_all_nodes order) of each step's type
RebuildSteps(ns, es, root_id, template) ==
    LET mapping == IF template \in DOMAIN STEP_MAPPINGS
                   THEN STEP_MAPPINGS[template] ELSE <<>>
        of_type(t) == {n \in WorkflowNodes(ns, es, root_id) : ns[n].type = t}
        type_of(step) ==
            LET hits == {i \in 1..Len(mapping) : mapping[i][1] = step}
            IN  IF hits = {} THEN None
                ELSE mapping[CHOOSE i \in hits : TRUE][2]
    IN  [step \in StepNames |->
            IF type_of(step) # None /\ of_type(type_of(step)) # {}
            THEN CHOOSE n \in of_type(type_of(step)) :
                     \A m \in of_type(type_of(step)) : n <= m
            ELSE NoNode]

\* WorkflowContext.switch_workflow as a function of the store and the context
SwitchResult(ns, es, ctx, ident) ==
    LET all == list_all_workflows(ns, es)
        m == MatchWorkflow(all, ident)
    IN  IF ~m.success
        THEN [success |-> FALSE, matched |-> NoNode, matches |-> m.matches,
              context |-> ctx]
        ELSE [success |-> TRUE, matched |-> m.matched, matches |-> {},
              context |->
                  set_active_workflow(ctx, m.matched, all[m.matched].template,
                      RebuildSteps(ns, es, m.matched, all[m.matched].template))]

\* switch_workflow(workflow_identifier)
switch_workflow(ident) ==
    LET r == SwitchResult(nodes, edges, context, ident)
    IN  /\ context' = r.context
        /\ last' = [op |-> "switch_workflow", id |-> r.matched,
                    ret |-> IF r.success THEN "ok"
                            ELSE IF r.matches # {} THEN "AmbiguousMatch"
                            ELSE "NotFound",
                    new |-> NoNode, gen |-> None,
                    ident |-> ident, matches |-> r.matches]
        /\ UNCHANGED <<nodes, edges, versions>>

\* fault variant of the trigger: the count of workflows is not looked at
AutoActivates_any(ns, es, ctx) ==
    /\ get_active_workflow(ctx) = NoWorkflow
    /\ DOMAIN list_all_workflows(ns, es) # {}

\* auto_activate_if_single_workflow: TRUE when it goes on to switch
AutoActivates(ns, es, ctx) ==
    /\ get_active_workflow(ctx) = NoWorkflow
    /\ Cardinality(DOMAIN list_all_workflows(ns, es)) = 1

\* get_workflow_status / get_active_workflow (the tools): the auto-activation
\* they start with
auto_activate_if_single_workflow ==
    LET all == list_all_workflows(nodes, edges)
        wf == FirstListed(DOMAIN all)
        r == SwitchResult(nodes, edges, context,
                          [kind |-> "id", id |-> wf, text |-> ""])
    IN  /\ IF AutoActivates(nodes, edges, context)
           THEN /\ context' = r.context
                /\ last' = Result("auto_activate", wf, "activated", NoNode, None)
           ELSE /\ context' = context
                /\ last' = Result("auto_activate", NoNode, "None", NoNode, None)
        /\ UNCHANGED <<nodes, edges, versions>>

\* targets of the edges that leave a node of S
Targets(es, S) == {es[i].target : i \in {j \in 1..Len(es) : es[j].source \in S}}

\* ids reached from the ids of S over outgoing edges, S included
RECURSIVE ReachFrom(_, _)
ReachFrom(es, S) ==
    IF Targets(es, S) \subseteq S THEN S ELSE ReachFrom(es, S \cup Targets(es, S))

\* get_all_downstream_nodes recurses without a visited set: it returns only
\* when no cycle (self-loops included) is reachable from node_id, and raises
\* RecursionError otherwise
DownstreamRecursionEnds(es, node_id) ==
    \A n \in ReachFrom(es, {node_id}) : n \notin ReachFrom(es, Targets(es, {n}))

\* get_all_downstream_nodes(node_id), when it returns
get_all_downstream_nodes(es, node_id) == ReachFrom(es, {node_id})

\* WorkflowContext.clear_active_workflow
clear_active_workflow(ctx0) ==
    LET ctx == normalize_context(ctx0)
    IN  IF ctx.active_workflow_id = NoNode /\ ctx.active_workflow = NoWorkflow
        THEN ctx0
        ELSE normalize_context([ctx EXCEPT !.active_workflow_id = NoNode,
                                           !.active_workflow = NoWorkflow])

\* the rows of a table the deletes leave, in their order
RECURSIVE RowsLeft(_, _)
RowsLeft(rows, gone) ==
    IF rows = <<>> THEN <<>>
    ELSE IF gone[Head(rows)] THEN RowsLeft(Tail(rows), gone)
    ELSE <<Head(rows)>> \o RowsLeft(Tail(rows), gone)

\* delete_workflow, the target: the node with the given id, else the first
\* node without incoming edges whose title contains the text; NoNode if none
ResolveRoot(ns, es, ident) ==
    LET workflow_roots == {n \in DOMAIN ns :
                              \A i \in 1..Len(es) : es[i].target # n}
        hits == {n \in workflow_roots :
                    ident.kind = "text" /\ TitleContains(Label[n], ident.text)}
    IN  IF ident.kind = "id"
        THEN IF ident.id \in DOMAIN ns THEN ident.id ELSE NoNode
        ELSE IF hits = {} THEN NoNode
        ELSE CHOOSE n \in hits : \A m \in hits : n <= m

\* fault variant of the safe-mode checks: the draft scan is gone
SafeRefusalActiveOnly(ns, es, root_id, is_active) ==
    IF is_active THEN "refused_active" ELSE "ok"

\* delete_workflow, force=False: the refusal, "ok" when there is none
SafeRefusal(ns, es, root_id, is_active) ==
    IF is_active THEN "refused_active"
    ELSE IF ~DownstreamRecursionEnds(es, root_id) THEN "RecursionError"
    ELSE IF \E n \in get_all_downstream_nodes(es, root_id) :
                n \in DOMAIN ns /\ ns[n].is_draft
    THEN "refused_draft"
    ELSE "ok"

\* fault variant of the deletion loop: the edges leaving the root are kept
DeletedEdgesBelowRoot(es, root_id) ==
    {i \in 1..Len(es) :
        /\ es[i].source \in get_all_downstream_nodes(es, root_id)
        /\ es[i].source # root_id}

\* delete_workflow, the deletion loop: the edges it deletes
DeletedEdges(es, root_id) ==
    {i \in 1..Len(es) : es[i].source \in get_all_downstream_nodes(es, root_id)}

\* delete_workflow(workflow_id, force).  The node_versions rows of a deleted
\* node go with it (ON DELETE CASCADE).
delete_workflow(ident, force) ==
    LET root_id == ResolveRoot(nodes, edges, ident)
        is_active == root_id = get_active_workflow(context).workflow_id
        refusal == SafeRefusal(nodes, edges, root_id, is_active)
        gone_nodes == get_all_downstream_nodes(edges, root_id) \cap DOMAIN nodes
        gone_edges == DeletedEdges(edges, root_id)
        result(ret, n, e) ==
            [op |-> "delete_workflow", id |-> root_id, ret |-> ret,
             new |-> NoNode, gen |-> None, force |-> force,
             deleted_nodes |-> n, deleted_edges |-> e]
        fail(ret) ==
            /\ last' = result(ret, 0, 0)
            /\ UNCHANGED <<nodes, edges, versions, context>>
    IN  IF root_id = NoNode THEN fail("NotFound")
        ELSE IF ~force /\ refusal # "ok" THEN fail(refusal)
        ELSE IF ~DownstreamRecursionEnds(edges, root_id) THEN fail("RecursionError")
        ELSE /\ nodes' = [n \in DOMAIN nodes \ gone_nodes |-> nodes[n]]
             /\ edges' = RowsLeft(edges,
                             [e \in {edges[i] : i \in 1..Len(edges)} |->
                                 \E i \in gone_edges : edges[i] = e])
             /\ versions' = RowsLeft(versions,
                             [v \in {versions[i] : i \in 1..Len(versions)} |->
                                 v.node_id \in gone_nodes])
             /\ context' = IF is_active
                           THEN clear_active_workflow(context) ELSE context
             /\ last' = result("ok", Cardinality(gone_nodes),
                               Cardinality(gone_edges))

\* stored graphs with their workflows: node types with and without a
\* template, drafts and finalized nodes with their version rows
ManageTypes == {"bug_report", "requirement"}

ManageEdgeLists(k) ==
    UNION {[1..n -> (1..k) \X (1..k)] : n \in 0..MaxManageEdges}

ManageRow(type, is_draft) ==
    IF is_draft
    THEN [NewNodeRow(type, "", TRUE, TRUE) EXCEPT !.draft_content = "D",
                                                  !.draft_source_type = "manual_created"]
    ELSE [NewNodeRow(type, "X", TRUE, FALSE) EXCEPT !.current_version = 1]

RECURSIVE ManageVersions(_, _)
ManageVersions(ns, i) ==
    IF i \notin DOMAIN ns THEN <<>>
    ELSE (IF ns[i].is_draft THEN <<>>
          ELSE << [node_id |-> i, version |-> 1, content |-> "X",
                   source_type |-> "manual_created",
                   based_on_version |-> NoVersion] >>)
         \o ManageVersions(ns, i + 1)

\* a stored graph of up to MaxGraphNodes nodes and MaxManageEdges edges, with
\* no context file yet
InitManage(types, drafts) ==
    /\ \E k \in 1..MaxGraphNodes :
          /\ \E t \in [1..k -> types], d \in [1..k -> drafts] :
                nodes = [i \in 1..k |-> ManageRow(t[i], d[i])]
          /\ \E l \in ManageEdgeLists(k) :
                edges = [i \in 1..Len(l) |-> NewEdgeRow(i, l[i][1], l[i][2], "next")]
    /\ versions = ManageVersions(nodes, 1)
    /\ context = EmptyContext
    /\ last = Result("init", NoNode, "ok", NoNode, None)
    /\ inflight = Idle

\* list_workflows(limit): the roots are the stored nodes without incoming
\* edges, the first limit of them (rows in insertion order) are displayed,
\* and count_nodes recurses from each displayed root without a visited set;
\* its RecursionError is caught and returned as an error text.  counts gives,
\* per displayed root, the nodes counted and those of them with
\* is_draft = False.
list_workflows(limit) ==
    LET workflow_roots == {n \in DOMAIN nodes :
                              \A i \in 1..Len(edges) : edges[i].target # n}
        displayed_roots == {n \in workflow_roots :
                               Cardinality({m \in workflow_roots : m < n}) < limit}
        count_nodes(root_id) == ReachFrom(edges, {root_id})
        result(ret, counts) ==
            [op |-> "list_workflows", id |-> NoNode, ret |-> ret,
             new |-> NoNode, gen |-> None, limit |-> limit,
             roots |-> workflow_roots, counts |-> counts]
    IN  /\ last' =
              IF workflow_roots = {} THEN result("no_workflows", <<>>)
              ELSE IF \E r \in displayed_roots : ~DownstreamRecursionEnds(edges, r)
              THEN result("RecursionError", <<>>)
              ELSE result("ok",
                      [r \in displayed_roots |->
                          [total |-> Cardinality(count_nodes(r)),
                           finalized |-> Cardinality(
                               {n \in count_nodes(r) \cap DOMAIN nodes :
                                   ~nodes[n].is_draft})]])
        /\ UNCHANGED <<nodes, edges, versions, context>>

\* limits callers pass: one entry, and the default
ListLimits == {1, 5}

\* listings and deletes by id on graphs of drafts and finalized nodes
InitList == InitManage({"requirement"}, BOOLEAN)

NextList ==
    \/ \E limit \in ListLimits : list_workflows(limit) /\ UNCHANGED inflight
    \/ \E ident \in Identifiers, force \in BOOLEAN :
          ident.kind = "id" /\ delete_workflow(ident, force) /\ UNCHANGED inflight

SpecList == InitList /\ [][NextList]_vars

\* deletes on graphs of drafts and finalized nodes, with checkouts by id
InitDelete == InitManage({"requirement"}, BOOLEAN)

NextDelete ==
    \/ \E ident \in Identifiers :
          ident.kind = "id" /\ switch_workflow(ident) /\ UNCHANGED inflight
    \/ \E ident \in Identifiers, force \in BOOLEAN :
          delete_workflow(ident, force) /\ UNCHANGED inflight

SpecDelete == InitDelete /\ [][NextDelete]_vars

\* checkouts and status queries on graphs of finalized nodes of several
\* types, with forced deletes by id
InitSwitch == InitManage(ManageTypes, {FALSE})

NextSwitch ==
    \/ \E ident \in Identifiers : switch_workflow(ident) /\ UNCHANGED inflight
    \/ auto_activate_if_single_workflow /\ UNCHANGED inflight
    \/ \E ident \in Identifiers :
          ident.kind = "id" /\ delete_workflow(ident, TRUE) /\ UNCHANGED inflight

SpecSwitch == InitSwitch /\ [][NextSwitch]_vars

\* ------------------------------ finalize_step run by several processes
\* finalize_step up to validate_node_for_finalization: process p looks up the
\* step's node and reads its row in a session of its own; the row it read is
\* what the rest of the call works on
finalize_step_begin(p, step_name) ==
    LET workflow == get_active_workflow(context)
        node_id == workflow.steps[step_name]
        valid == validate_node_for_finalization(nodes, node_id)
        fail(ret) ==
            /\ last' = Result("finalize_step", node_id, ret, NoNode, None)
            /\ UNCHANGED inflight
    IN  /\ inflight[p].pc = "idle"
        /\ UNCHANGED <<nodes, edges, versions, context>>
        /\ IF workflow = NoWorkflow THEN fail("no_active_workflow")
           ELSE IF node_id = NoNode THEN fail("no_step")
           ELSE IF valid # "ok" THEN fail(valid)
           ELSE /\ inflight' = [inflight EXCEPT ![p] =
                       [pc |-> "validated", node_id |-> node_id,
                        node |-> nodes[node_id], template |-> workflow.template]]
                /\ UNCHANGED last

\* finalize_step from create_node_version on: the INSERT into node_versions
\* and the UPDATE of the node row, both computed from the row process p read,
\* are committed together; then the engine runs and the context is updated.
\* node_versions has no unique constraint on (node_id, version) and the
\* UPDATE carries no version test.
finalize_step_commit(p, file_ok) ==
    LET node_id == inflight[p].node_id
        node == inflight[p].node
        version == create_node_version(node_id, node)
        committed == [nodes EXCEPT ![node_id] =
                         clear_draft(update_node_content(node, version.version))]
        fail(ret) ==
            /\ last' = Result("finalize_step", node_id, ret, NoNode, None)
            /\ UNCHANGED <<nodes, edges, versions, context>>
    IN  /\ inflight[p].pc = "validated"
        /\ Len(versions) < MaxRaceVersions
        /\ inflight' = [inflight EXCEPT ![p] = [pc |-> "idle"]]
        /\ IF ~file_ok THEN fail("IOError")
           ELSE IF version.content = None \/ version.source_type = None
           THEN fail("IntegrityError")
           ELSE IF node_id \notin DOMAIN nodes THEN fail("StaleDataError")
           ELSE \E nid \in NewNodeIds(committed, edges, node_id),
                   eid \in NewEdgeIds(committed, edges, node_id) :
                LET t == Transition(committed, edges, node_id, TRUE, nid, eid)
                    step == IF t.ret = "created"
                            THEN StepForType(inflight[p].template,
                                             t.nodes[t.new].type)
                            ELSE None
                IN  /\ versions' = Append(versions, version)
                    /\ nodes' = t.nodes
                    /\ edges' = t.edges
                    /\ context' = IF step # None
                                  THEN add_workflow_step(context, step, t.new)
                                  ELSE context
                    /\ last' = Result("finalize_step", node_id,
                                      IF t.ret = "raised"
                                      THEN "engine_error" ELSE "ok",
                                      t.new, t.gen)

\* one stored node with a pending draft, never finalized or finalized once,
\* as the only step of the active workflow
RaceTypes == {"aggregate", "requirement"}

RaceRow(type, finalized_before) ==
    [type |-> type,
     content |-> IF finalized_before THEN "X" ELSE "",
     draft_content |-> "D",
     is_draft |-> TRUE,
     current_version |-> IF finalized_before THEN 1 ELSE 0,
     draft_source_type |-> IF finalized_before THEN "manual_modified"
                           ELSE "manual_created",
     draft_based_on_version |-> IF finalized_before THEN 1 ELSE NoVersion]

InitRace ==
    /\ \E type \in RaceTypes, finalized_before \in BOOLEAN :
          /\ nodes = [i \in {1} |-> RaceRow(type, finalized_before)]
          /\ versions = IF finalized_before
                        THEN << [node_id |-> 1, version |-> 1, content |-> "X",
                                 source_type |-> "manual_created",
                                 based_on_version |-> NoVersion] >>
                        ELSE <<>>
          /\ context = set_active_workflow(EmptyContext, 1, "standard",
                           [NoSteps EXCEPT ![StepForType("standard", type)] = 1])
    /\ edges = <<>>
    /\ last = Result("init", NoNode, "ok", NoNode, None)
    /\ inflight = Idle

NextRace ==
    \/ \E p \in Procs, s \in StepInputs : finalize_step_begin(p, s)
    \/ \E p \in Procs, ok \in BOOLEAN : finalize_step_commit(p, ok)
    \/ \E s \in StepInputs, c \in DraftTexts :
          update_step_draft(s, c) /\ UNCHANGED inflight

SpecRace == InitRace /\ [][NextRace]_vars

\* --------------------- the context file written by several processes
\* add_workflow_step / update_current_step up to load_context: process p
\* reads the file; node_id is NoNode for update_current_step.  Nothing is
\* written when there is no file or no active workflow.
context_load(p, op, step_name, node_id) ==
    /\ inflight[p].pc = "idle"
    /\ UNCHANGED <<nodes, edges, versions, context>>
    /\ IF context = EmptyContext \/ normalize_context(context).active_workflow_id = NoNode
       THEN /\ last' = [op |-> op, id |-> node_id, ret |-> "None", new |-> NoNode,
                        gen |-> None, step |-> step_name]
            /\ UNCHANGED inflight
       ELSE /\ inflight' = [inflight EXCEPT ![p] =
                   [pc |-> "loaded", op |-> op, step |-> step_name,
                    node_id |-> node_id, context |-> normalize_context(context)]]
            /\ UNCHANGED last

\* add_workflow_step / update_current_step from the change of the loaded
\* dict to save_context, which writes the whole dict over the file
context_save(p) ==
    LET loaded == inflight[p].context
        op == inflight[p].op
    IN  /\ inflight[p].pc = "loaded"
        /\ context' = IF op = "add_workflow_step"
                      THEN add_workflow_step(loaded, inflight[p].step,
                                             inflight[p].node_id)
                      ELSE update_current_step(loaded, inflight[p].step)
        /\ last' = [op |-> op, id |-> inflight[p].node_id, ret |-> "ok",
                    new |-> NoNode, gen |-> None, step |-> inflight[p].step]
        /\ inflight' = [inflight EXCEPT ![p] = [pc |-> "idle"]]
        /\ UNCHANGED <<nodes, edges, versions>>

\* a context file with or without an active workflow, next to an empty graph
InitContext ==
    /\ nodes = <<>>
    /\ edges = <<>>
    /\ versions = <<>>
    /\ context \in {EmptyContext,
                    set_active_workflow(EmptyContext, 1, "standard",
                                        [NoSteps EXCEPT !["aggregate"] = 1])}
    /\ last = Result("init", NoNode, "ok", NoNode, None)
    /\ inflight = Idle

\* the steps the writers record and move to
RecordedSteps == {"requirement", "design"}

NextContext ==
    \/ \E p \in Procs, s \in RecordedSteps :
          context_load(p, "add_workflow_step", s, MaxNodes)
    \/ \E p \in Procs, s \in RecordedSteps \cup {"aggregate"} :
          context_load(p, "update_current_step", s, NoNode)
    \/ \E p \in Procs : context_save(p)

SpecContext == InitContext /\ [][NextContext]_vars

\* ------------------------------------- the engine followed along a pipeline
\* EdgeType (edge_types.py): the edge types the graph supports
EdgeType == {"next", "contain", "reference"}

\* on_node_finalized when the uuid-derived ids of the new node and edge are
\* new ones: the next free numbers
on_node_finalized_fresh(node_id, enable_ai) ==
    LET nid == Cardinality(DOMAIN nodes) + 1
        eid == Len(edges) + 1
        t == Transition(nodes, edges, node_id, enable_ai, nid, eid)
    IN  /\ Cardinality(DOMAIN nodes) < MaxStages
        /\ nodes' = t.nodes
        /\ edges' = t.edges
        /\ last' = Result("on_node_finalized", node_id, t.ret, t.new, t.gen)
        /\ UNCHANGED <<versions, context, inflight>>

\* one finalized node of any type that has a flow rule
InitPipeline ==
    /\ \E type \in DOMAIN FLOW_RULES_next_type :
          nodes = [i \in {1} |-> [NewNodeRow(type, "X", TRUE, FALSE)
                                     EXCEPT !.current_version = 1]]
    /\ edges = <<>>
    /\ versions = <<>>
    /\ context = EmptyContext
    /\ last = Result("init", NoNode, "ok", NoNode, None)
    /\ inflight = Idle

NextPipeline ==
    \E id \in 1..MaxStages, ai \in BOOLEAN : on_node_finalized_fresh(id, ai)

SpecPipeline == InitPipeline /\ [][NextPipeline]_vars

\* --------------------------- on_node_finalized run by several processes
\* on_node_finalized up to the idempotence check: process p reads the node,
\* its flow rule and the targets of its outgoing edges (_find_next_node), in
\* sessions that hold no lock once the reads are done
engine_find(p, node_id, enable_ai) ==
    /\ inflight[p].pc = "idle"
    /\ UNCHANGED <<nodes, edges, versions, context>>
    /\ IF CreatesSuccessor(nodes, edges, node_id)
       THEN /\ inflight' = [inflight EXCEPT ![p] =
                   [pc |-> "creating", node_id |-> node_id,
                    next_type |-> get_next_type(nodes[node_id].type),
                    enable_ai |-> enable_ai]]
            /\ UNCHANGED last
       ELSE /\ last' = Result("on_node_finalized", node_id, "None", NoNode, None)
            /\ UNCHANGED inflight

\* _create_next_node, GraphCRUD.create_node: the successor is inserted under
\* an unused uuid-derived id and committed
engine_create_node(p) ==
    LET nid == Cardinality(DOMAIN nodes) + 1
    IN  /\ inflight[p].pc = "creating"
        /\ nodes' = InsertNode(nodes, nid,
                               NewNodeRow(inflight[p].next_type, "", TRUE, TRUE))
        /\ inflight' = [inflight EXCEPT ![p] =
               [pc |-> "linking", node_id |-> inflight[p].node_id,
                next_type |-> inflight[p].next_type,
                enable_ai |-> inflight[p].enable_ai, new |-> nid]]
        /\ UNCHANGED <<edges, versions, context, last>>

\* _create_next_node, GraphCRUD.create_edge, and the rest of
\* on_node_finalized: the edge to the successor is inserted and committed and
\* the result is built
engine_create_edge(p) ==
    LET eid == Len(edges) + 1
        node_id == inflight[p].node_id
    IN  /\ inflight[p].pc = "linking"
        /\ edges' = Append(edges, NewEdgeRow(eid, node_id, inflight[p].new,
                                             "references"))
        /\ last' = Result("on_node_finalized", node_id, "created", inflight[p].new,
                          GenerationBlock(nodes, edges', node_id,
                                          inflight[p].enable_ai))
        /\ inflight' = [inflight EXCEPT ![p] = [pc |-> "idle"]]
        /\ UNCHANGED <<nodes, versions, context>>

\* one finalized node of any type that has a flow rule; the calls are made
\* for stored nodes until MaxEngineNodes nodes are stored
InitEngineRace == InitPipeline

NextEngineRace ==
    \/ \E p \in Procs, id \in 1..MaxEngineNodes, ai \in BOOLEAN :
          /\ id \in DOMAIN nodes
          /\ Cardinality(DOMAIN nodes)
               + Cardinality({q \in Procs : inflight[q].pc = "creating"})
               < MaxEngineNodes
          /\ engine_find(p, id, ai)
    \/ \E p \in Procs : engine_create_node(p)
    \/ \E p \in Procs : engine_create_edge(p)

SpecEngineRace == InitEngineRace /\ [][NextEngineRace]_vars

\* ------------------------- the step tools on workflows of every template
\* an active workflow of any template of STEP_MAPPINGS whose only recorded
\* step is a node of that step's type with a pending draft
InitSteps ==
    /\ \E template \in DOMAIN STEP_MAPPINGS, finalized_before \in BOOLEAN :
          \E i \in 1..Len(STEP_MAPPINGS[template]) :
              /\ nodes = [n \in {1} |->
                            RaceRow(STEP_MAPPINGS[template][i][2], finalized_before)]
              /\ versions = IF finalized_before
                            THEN << [node_id |-> 1, version |-> 1, content |-> "X",
                                     source_type |-> "manual_created",
                                     based_on_version |-> NoVersion] >>
                            ELSE <<>>
              /\ context = set_active_workflow(EmptyContext, 1, template,
                               [NoSteps EXCEPT ![STEP_MAPPINGS[template][i][1]] = 1])
    /\ edges = <<>>
    /\ last = Result("init", NoNode, "ok", NoNode, None)
    /\ inflight = Idle

NextSteps ==
    \/ \E s \in StepNames, c \in DraftTexts :
          update_step_draft(s, c) /\ UNCHANGED inflight
    \/ \E s \in StepNames, ok \in BOOLEAN :
          finalize_step(s, ok) /\ UNCHANGED inflight

SpecSteps == InitSteps /\ [][NextSteps]_vars

\* ------------------------------------- the engine on stored typed graphs
\* a call of _build_ai_prompt for a stored node that has content (its
\* precondition); rules is what _get_project_rules returns
build_ai_prompt_call(node_id, rules) ==
    /\ node_id \in DOMAIN nodes
    /\ has_content(nodes[node_id].content)
    /\ LET r == build_ai_prompt(nodes, edges, node_id, rules)
       IN  last' = [op |-> "build_ai_prompt", id |-> node_id,
                    ret |-> IF r.raised THEN "KeyError" ELSE "ok",
                    new |-> NoNode, gen |-> None,
                    text |-> r.text, rules |-> r.rules]
    /\ UNCHANGED <<nodes, edges, versions, context>>

\* node types of the stored graphs: with and without a rule, with and
\* without a next type, with prompt slots ancestors do and do not fill
EngineTypes ==
    {"aggregate", "requirement", "design", "integration_test", "test", "note"}

\* the content a stored node has when it is not empty, one text per node
EngineText == [i \in NodeIds |-> IF i = 1 THEN "X" ELSE "Y"]

RuleTexts == {"", "R"}

EngineEdgeLists ==
    UNION {[1..n -> NodeIds \X NodeIds] : n \in 0..MaxEdges}

InitEngine ==
    /\ \E k \in 1..MaxNodes :
          nodes \in [1..k -> [type : EngineTypes,
                              content : {""} \cup {EngineText[i] : i \in NodeIds},
                              draft_content : {None},
                              is_draft : {FALSE},
                              current_version : {1},
                              draft_source_type : {None},
                              draft_based_on_version : {NoVersion}]]
    /\ \A i \in DOMAIN nodes : nodes[i].content \in {"", EngineText[i]}
    /\ \E l \in EngineEdgeLists :
          edges = [i \in 1..Len(l) |-> NewEdgeRow(i, l[i][1], l[i][2], "next")]
    /\ versions = <<>>
    /\ context = EmptyContext
    /\ last = Result("init", NoNode, "ok", NoNode, None)
    /\ inflight = Idle

NextEngine ==
    \/ \E id \in NodeIds, ai \in BOOLEAN :
          on_node_finalized(id, ai) /\ UNCHANGED inflight
    \/ \E id \in NodeIds, r \in RuleTexts :
          build_ai_prompt_call(id, r) /\ UNCHANGED inflight

SpecEngine == InitEngine /\ [][NextEngine]_vars

\* the engine on stored graphs whose nodes may carry a pending draft
DraftTypes == {"aggregate", "requirement", "design"}

InitDrafts ==
    /\ \E k \in 1..MaxNodes :
          nodes \in [1..k -> [type : DraftTypes,
                              content : {""} \cup {EngineText[i] : i \in NodeIds},
                              draft_content : {None, "D"},
                              is_draft : BOOLEAN,
                              current_version : {1},
                              draft_source_type : {None},
                              draft_based_on_version : {NoVersion}]]
    /\ \A i \in DOMAIN nodes :
          /\ nodes[i].content \in {"", EngineText[i]}
          /\ nodes[i].is_draft <=> nodes[i].draft_content # None
    /\ \E l \in EngineEdgeLists :
          edges = [i \in 1..Len(l) |-> NewEdgeRow(i, l[i][1], l[i][2], "next")]
    /\ versions = <<>>
    /\ context = EmptyContext
    /\ last = Result("init", NoNode, "ok", NoNode, None)
    /\ inflight = Idle

NextDrafts ==
    \/ \E id \in NodeIds, ai \in BOOLEAN :
          on_node_finalized(id, ai) /\ UNCHANGED inflight
    \/ \E id \in NodeIds, r \in RuleTexts :
          build_ai_prompt_call(id, r) /\ UNCHANGED inflight

SpecDrafts == InitDrafts /\ [][NextDrafts]_vars

\* ------------------------------ a workflow driven step by step to its end
\* finalize_step(step_name) when uuid4 gives unused ids (the new node and the
\* new edge get the next free number), as a function of the state: the store
\* and the context it leaves and what it returns
FinalizeStepFresh(ns, es, vs, ctx, step_name, file_ok) ==
    LET workflow == get_active_workflow(ctx)
        node_id == workflow.steps[step_name]
        valid == validate_node_for_finalization(ns, node_id)
        nid == Cardinality(DOMAIN ns) + 1
        eid == Len(es) + 1
        fail(ret) ==
            [nodes |-> ns, edges |-> es, versions |-> vs, context |-> ctx,
             last |-> Result("finalize_step", node_id, ret, NoNode, None)]
    IN  IF workflow = NoWorkflow THEN fail("no_active_workflow")
        ELSE IF node_id = NoNode THEN fail("no_step")
        ELSE IF valid # "ok" THEN fail(valid)
        ELSE IF ~file_ok THEN fail("IOError")
        ELSE LET node == ns[node_id]
                 version == create_node_version(node_id, node)
                 committed == [ns EXCEPT ![node_id] =
                                  clear_draft(update_node_content(node, version.version))]
                 t == Transition(committed, es, node_id, TRUE, nid, eid)
                 step == IF t.ret = "created"
                         THEN StepForType(workflow.template, t.nodes[t.new].type)
                         ELSE None
             IN  IF version.content = None \/ version.source_type = None
                 THEN fail("IntegrityError")
                 ELSE [nodes |-> t.nodes, edges |-> t.edges,
                       versions |-> Append(vs, version),
                       context |-> IF step # None
                                   THEN add_workflow_step(ctx, step, t.new)
                                   ELSE ctx,
                       last |-> Result("finalize_step", node_id,
                                       IF t.ret = "raised"
                                       THEN "engine_error" ELSE "ok",
                                       t.new, t.gen)]

finalize_step_fresh(step_name, file_ok) ==
    /\ Len(versions) < MaxDriveVersions
    /\ \E r \in {FinalizeStepFresh(nodes, edges, versions, context,
                                   step_name, file_ok)} :
          /\ nodes' = r.nodes
          /\ edges' = r.edges
          /\ versions' = r.versions
          /\ context' = r.context
          /\ last' = r.last
    /\ UNCHANGED inflight

\* texts the user drafts
DriveTexts == {"D", "E"}

\* the workflow is created from a template of STEP_MAPPINGS in an empty store
DriveCreate ==
    /\ nodes = <<>>
    /\ \E tpl \in DOMAIN STEP_MAPPINGS, c \in UserTexts :
          create_workflow_from_template(tpl, c, 1)
    /\ UNCHANGED inflight

\* the user drafts the current step of the active workflow
DriveDraft ==
    /\ get_active_workflow(context) # NoWorkflow
    /\ get_active_workflow(context).current_step # None
    /\ \E c \in DriveTexts :
          update_step_draft(get_active_workflow(context).current_step, c)
    /\ UNCHANGED inflight

\* the user commits the current step of the active workflow
DriveCommit(file_ok) ==
    /\ get_active_workflow(context) # NoWorkflow
    /\ get_active_workflow(context).current_step # None
    /\ finalize_step_fresh(get_active_workflow(context).current_step, file_ok)

NextDrive ==
    \/ DriveCreate
    \/ DriveDraft
    \/ DriveCommit(TRUE)
    \/ DriveCommit(FALSE)

\* a commit of the current step whose file write succeeds would append a
\* version row: the enabling condition of the successful commit
CommitPossible ==
    /\ Len(versions) < MaxDriveVersions
    /\ get_active_workflow(context) # NoWorkflow
    /\ get_active_workflow(context).current_step # None
    /\ FinalizeStepFresh(nodes, edges, versions, context,
                         get_active_workflow(context).current_step,
                         TRUE).versions # versions

\* the step of a successful commit: the only one that appends a version row
Committed == Len(versions') > Len(versions)

\* the user keeps drafting and committing: the creation and the drafting are
\* weakly fair, and so is the successful commit, whose weak fairness is
\* written out with CommitPossible as its enabling condition
SpecDrive ==
    /\ Init
    /\ [][NextDrive]_vars
    /\ WF_vars(DriveCreate)
    /\ WF_vars(DriveDraft)
    /\ ([]<>~CommitPossible \/ []<><<Committed>>_vars)

Next ==
    \/ \E id \in FreshOrUsed(DOMAIN nodes, NodeIds), t \in CreateTypes,
          c \in UserTexts, given \in BOOLEAN, d \in BOOLEAN :
          /\ (~given => ~d)
          /\ create_node(id, t, c, given, d)
          /\ UNCHANGED inflight
    \/ \E id \in FreshOrUsed(EdgeIdsUsed, EdgeIds), s \in NodeIds, t \in NodeIds,
          et \in EdgeTypes :
          create_edge(id, s, t, et) /\ UNCHANGED inflight
    \/ \E id \in NodeIds, c \in {None, "X"}, st \in {None, "draft", "finalized"} :
          update_node(id, c, st) /\ UNCHANGED inflight
    \/ \E id \in NodeIds : finalize_node(id) /\ UNCHANGED inflight
    \/ \E id \in NodeIds, ai \in BOOLEAN :
          on_node_finalized(id, ai) /\ UNCHANGED inflight
    \/ \E s \in StepInputs, c \in DraftTexts :
          update_step_draft(s, c) /\ UNCHANGED inflight
    \/ \E s \in StepInputs, ok \in BOOLEAN :
          finalize_step(s, ok) /\ UNCHANGED inflight
    \/ \E tpl \in TemplateIds, c \in UserTexts,
          id \in FreshOrUsed(DOMAIN nodes, NodeIds) :
          create_workflow_from_template(tpl, c, id) /\ UNCHANGED inflight

Spec == Init /\ [][Next]_vars

\* =================================================================== claims
\* content is empty: None, "" or whitespace
IsEmpty(c) == ~has_content(c)

\* version numbers of the node_versions rows of node id, in creation order
VersionsOf(id) == SelectVersions(versions, id)

\* node id has an outgoing edge to an existing node of its rule's next type
HasNextTarget(ns, es, id) ==
    /\ id \in DOMAIN ns
    /\ get_next_type(ns[id].type) # None
    /\ \E i \in 1..Len(es) :
          /\ es[i].source = id
          /\ es[i].target \in DOMAIN ns
          /\ ns[es[i].target].type = get_next_type(ns[id].type)

C2_StateInvariant ==
    \A id \in DOMAIN nodes :
        /\ (nodes[id].current_version = 0) <=> IsEmpty(nodes[id].content)
        /\ nodes[id].is_draft <=> (nodes[id].draft_content # None)

\* ---------------------------------------------------------------------- C3
UntouchedDraft(n) ==
    n.current_version = 0 /\ IsEmpty(n.content) /\ n.draft_content # None

FinalizedClean(n) ==
    ~n.is_draft /\ n.current_version >= 1 /\ n.draft_content = None

FinalizedWithPendingDraft(n) ==
    /\ n.is_draft
    /\ n.current_version >= 1
    /\ ~IsEmpty(n.content)
    /\ n.draft_content # None

\* C3: every node is in exactly one of the three lifecycle states.
C3_ExactlyOneState ==
    \A id \in DOMAIN nodes :
        Cardinality({k \in 1..3 :
            \/ k = 1 /\ UntouchedDraft(nodes[id])
            \/ k = 2 /\ FinalizedClean(nodes[id])
            \/ k = 3 /\ FinalizedWithPendingDraft(nodes[id])}) = 1

\* ---------------------------------------------------------------------- C4
\* C4: the version numbers recorded for a node are 1, 2, ..., k in creation
\* order.
C4_VersionsSequential ==
    \A id \in NodeIds :
        VersionsOf(id) = [i \in 1..Len(VersionsOf(id)) |-> i]

\* ---------------------------------------------------------------------- C5
\* C5: finalize_step on a node that is not a draft fails with
\* InvalidOperation, appends no node_versions row and leaves every node (its
\* content, current_version and draft fields) as it is.
C5_FinalizeNeedsDraft ==
    [][ (/\ last'.op = "finalize_step"
         /\ last'.id \in DOMAIN nodes
         /\ ~nodes[last'.id].is_draft)
        => (/\ last'.ret = "InvalidOperation"
            /\ versions' = versions
            /\ nodes' = nodes) ]_vars

\* C5 witness: a finalize_step was refused with InvalidOperation on a node
\* that has been finalized before
C5_Witness ==
    /\ last.op = "finalize_step"
    /\ last.ret = "InvalidOperation"
    /\ last.id \in DOMAIN nodes
    /\ nodes[last.id].current_version >= 1

\* ---------------------------------------------------------------------- C6
\* C6: a finalize_step of node n that directly follows update_step_draft(n, X)
\* fails only when the file cannot be written; otherwise n.content = X,
\* current_version has grown by one, the draft fields are cleared, is_draft
\* is false, and exactly one node_versions row was appended, with content X.
C6_RoundTrip ==
    [][ (/\ last.op = "update_step_draft"
         /\ last.ret = "ok"
         /\ last'.op = "finalize_step"
         /\ last'.id = last.id
         /\ last'.ret # "IOError")
        => LET n == last.id
               X == nodes[n].draft_content
               k == Len(versions)
           IN  /\ X \in DraftTexts
               /\ last'.ret \in {"ok", "engine_error"}
               /\ nodes'[n].content = X
               /\ nodes'[n].current_version = nodes[n].current_version + 1
               /\ nodes'[n].draft_content = None
               /\ nodes'[n].draft_source_type = None
               /\ nodes'[n].draft_based_on_version = NoVersion
               /\ ~nodes'[n].is_draft
               /\ Len(versions') = k + 1
               /\ SubSeq(versions', 1, k) = versions
               /\ versions'[k + 1].node_id = n
               /\ versions'[k + 1].content = X
               /\ versions'[k + 1].version = nodes'[n].current_version ]_vars

\* C6 witness: a finalize_step succeeded on a node that already had a
\* version, and the draft text is now its content and its newest version
C6_Witness ==
    /\ last.op = "finalize_step"
    /\ last.ret = "ok"
    /\ nodes[last.id].content \in DraftTexts
    /\ nodes[last.id].current_version = 2
    /\ versions # <<>>
    /\ versions[Len(versions)].node_id = last.id
    /\ versions[Len(versions)].content \in DraftTexts

\* ---------------------------------------------------------------------- C7
\* C7: a node that is not a draft has current_version >= 1 and exactly
\* current_version node_versions rows.
C7_NonDraftHasVersions ==
    \A id \in DOMAIN nodes :
        ~nodes[id].is_draft =>
            /\ nodes[id].current_version >= 1
            /\ Len(VersionsOf(id)) = nodes[id].current_version

\* ---------------------------------------------------------------------- C8
\* C8: right after an operation has created a node (create_node, workflow
\* creation, the auto-transition on its own or inside finalize_step) the new
\* node is a draft with current_version = 0.
C8_CreatedAsDraft ==
    (last.new # NoNode) =>
        /\ nodes[last.new].is_draft
        /\ nodes[last.new].current_version = 0

\* ---------------------------------------------------------------------- C9
\* C9: create_node with content and without an explicit draft request stores
\* a finalized node with current_version = 1; in every other case it stores
\* a draft, with supplied content held in draft_content and not in content.
C9_CreateNodeModes ==
    [][ \A id \in NodeIds, t \in CreateTypes, c \in UserTexts,
           given \in BOOLEAN, d \in BOOLEAN :
          (~NodeExists(id) /\ create_node(id, t, c, given, d))
          => IF has_content(c) /\ ~(given /\ d)
             THEN ~nodes'[id].is_draft /\ nodes'[id].current_version = 1
             ELSE /\ nodes'[id].is_draft
                  /\ has_content(c) =>
                        /\ nodes'[id].draft_content = c
                        /\ nodes'[id].content # c ]_vars

\* --------------------------------------------------------------------- C10
\* C10: create_node with an id that is already stored fails (IntegrityError)
\* and leaves every node, the existing one included, and every edge as it is.
C10_DuplicateIdRejected ==
    [][ (last'.op = "create_node" /\ last'.id \in DOMAIN nodes)
        => (/\ last'.ret = "IntegrityError"
            /\ nodes' = nodes
            /\ edges' = edges) ]_vars

\* C10 witness: a create_node was refused while a stored node has that id
C10_Witness ==
    /\ last.op = "create_node"
    /\ last.ret = "IntegrityError"
    /\ last.id \in DOMAIN nodes

\* --------------------------------------------------------------------- C11
\* C11: on every graph, cyclic ones included, get_parent_nodes(id,
\* recursive) returns, and it returns at most as many nodes as the graph
\* has, none of them twice.
C11_ParentsTerminate ==
    (last.op = "get_parent_nodes") =>
        /\ last.returned
        /\ Len(last.parents) <= Cardinality(DOMAIN nodes)
        /\ \A i, j \in 1..Len(last.parents) :
              last.parents[i] = last.parents[j] => i = j
        /\ \A i \in 1..Len(last.parents) : last.parents[i] \in DOMAIN nodes

\* C11 witness: the walk was run on the cycle 1 -> 2 -> 3 -> 1 from node 3
\* and returned all three nodes
C11_Witness ==
    /\ last.op = "get_parent_nodes"
    /\ last.id = 3
    /\ last.recursive
    /\ \E i, j, k \in 1..Len(edges) :
          /\ edges[i].source = 1 /\ edges[i].target = 2
          /\ edges[j].source = 2 /\ edges[j].target = 3
          /\ edges[k].source = 3 /\ edges[k].target = 1
    /\ last.parents = <<2, 1, 3>>

\* --------------------------------------------------------------------- C12
\* types whose rule has no next type, and the test for a type without rule
TerminalTypes == {"test", "documentation", "bug_verify"}

HasNoRule(type) == type \notin DOMAIN FLOW_RULES_next_type

AutoGenerates(ns, id) ==
    /\ id \in DOMAIN ns
    /\ ns[id].type \in DOMAIN FLOW_RULES_auto_generate
    /\ FLOW_RULES_auto_generate[ns[id].type]

\* C13: on_node_finalized with generation enabled, on a node whose rule has
\* auto_generate and whose content is empty, and which has no successor of
\* the next type yet, creates that successor (unless a generated id
\* collides) and reports the generation block parent_node_empty.
C13_EmptyParentSkips ==
    [][ \A id \in NodeIds :
          (/\ on_node_finalized(id, TRUE)
           /\ AutoGenerates(nodes, id)
           /\ IsEmpty(nodes[id].content)
           /\ ~HasNextTarget(nodes, edges, id)
           /\ last'.ret # "raised")
          => /\ last'.ret = "created"
             /\ last'.new \in DOMAIN nodes' \ DOMAIN nodes
             /\ nodes'[last'.new].type = get_next_type(nodes[id].type)
             /\ last'.gen = "parent_node_empty" ]_vars

\* C13 witness: a successor was created for an empty requirement node and
\* the result says parent_node_empty
C13_Witness ==
    /\ last.op = "on_node_finalized"
    /\ last.ret = "created"
    /\ last.gen = "parent_node_empty"
    /\ nodes[last.id].type = "requirement"
    /\ nodes[last.id].content = ""
    /\ nodes[last.new].type = "design"

\* --------------------------------------------------------------------- C14
\* C14 as stated: every result of on_node_finalized that is not None has a
\* generation block, enabled or explicitly disabled.
C14_GenerationNeverOmitted ==
    (last.op = "on_node_finalized" /\ last.ret = "created")
        => last.gen \in {"enabled", "parent_node_empty", "generation_error"}

\* C14 amended: every result that is not None names the new node, a node of
\* the rule's next type; it has a generation block (enabled, or disabled with
\* reason parent_node_empty or generation_error) exactly when generation is
\* enabled and the rule has auto_generate, and no generation block otherwise.
C14_GenerationWhenConfigured ==
    [][ \A id \in NodeIds, ai \in BOOLEAN :
          (on_node_finalized(id, ai) /\ last'.ret = "created")
          => /\ last'.new \in DOMAIN nodes'
             /\ nodes'[last'.new].type = get_next_type(nodes[id].type)
             /\ last'.gen \in {"enabled", "parent_node_empty",
                               "generation_error", "absent"}
             /\ (last'.gen # "absent") <=> (ai /\ AutoGenerates(nodes, id)) ]_vars

\* C14 witness: a successor was created and the result carries no
\* generation block
C14_Witness ==
    /\ last.op = "on_node_finalized"
    /\ last.ret = "created"
    /\ last.gen = "absent"
    /\ last.new \in DOMAIN nodes

\* --------------------------------------------------------------------- C15
\* C15: when on_node_finalized, with generation enabled, has stored the
\* successor and its edge and _build_ai_prompt raises, the call still
\* returns the transition result, with generation disabled for the reason
\* generation_error, and the successor and its edge stay in the graph.
C15_PromptFailureNonFatal ==
    [][ \A id \in NodeIds :
          (/\ on_node_finalized(id, TRUE)
           /\ AutoGenerates(nodes, id)
           /\ ~IsEmpty(nodes[id].content)
           /\ build_ai_prompt(nodes, edges, id, "").raised
           /\ Len(edges') = Len(edges) + 1)
          => /\ last'.ret = "created"
             /\ last'.gen = "generation_error"
             /\ last'.new \in DOMAIN nodes' \ DOMAIN nodes
             /\ edges'[Len(edges')].source = id
             /\ edges'[Len(edges')].target = last'.new ]_vars

\* C15 witness: a successor of an integration_test node was created although
\* its prompt could not be built
C15_Witness ==
    /\ last.op = "on_node_finalized"
    /\ last.ret = "created"
    /\ last.gen = "generation_error"
    /\ nodes[last.id].type = "integration_test"
    /\ nodes[last.new].type = "code_review"
    /\ \E i \in 1..Len(edges) :
          edges[i].source = last.id /\ edges[i].target = last.new

\* --------------------------------------------------------------------- C16
\* C16: for every rule with a prompt template and every set of ancestors,
\* _build_ai_prompt returns a text in which each slot of the template holds
\* a supplied content or the placeholder.
C16_PromptAlwaysBuilt ==
    (/\ last.op = "build_ai_prompt"
     /\ nodes[last.id].type \in DOMAIN FLOW_RULES_prompt_slots
     /\ FLOW_RULES_prompt_slots[nodes[last.id].type] # {})
        => /\ last.ret = "ok"
           /\ DOMAIN last.text = FLOW_RULES_prompt_slots[nodes[last.id].type]
           /\ \A k \in DOMAIN last.text :
                 last.text[k] \in {Placeholder} \cup {EngineText[i] : i \in NodeIds}
\* --------------------------------------------------------------------- C17
\* the transitive closure over outgoing edges from a root
ClosureOf(es, root_id) == ReachFrom(es, {root_id})

HasDraftIn(ns, es, root_id) ==
    \E n \in ClosureOf(es, root_id) \cap DOMAIN ns : ns[n].is_draft

\* C17: a delete_workflow without force whose target is the active workflow,
\* or has a draft node in the closure over outgoing edges from its root, does
\* not succeed, and leaves nodes, edges, versions and context as they were.
C17_SafeDeleteRefuses ==
    [][ (/\ last'.op = "delete_workflow"
         /\ ~last'.force
         /\ last'.id # NoNode
         /\ \/ get_active_workflow(context).workflow_id = last'.id
            \/ HasDraftIn(nodes, edges, last'.id))
        => (/\ last'.ret # "ok"
            /\ UNCHANGED <<nodes, edges, versions, context>>) ]_vars

\* C17 witness: a safe delete was refused for a workflow that is not active
\* and has a finalized root with a draft node below it
C17_Witness ==
    /\ last.op = "delete_workflow"
    /\ ~last.force
    /\ last.ret = "refused_draft"
    /\ get_active_workflow(context).workflow_id # last.id
    /\ ~nodes[last.id].is_draft
    /\ \E n \in ClosureOf(edges, last.id) \cap DOMAIN nodes : nodes[n].is_draft

\* --------------------------------------------------------------------- C18
\* C18: after a delete_workflow with force on a root (a node without incoming
\* edges), no node of the closure and no edge leaving one remains, the active
\* workflow is cleared if it was this one, and the counts returned are the
\* numbers of node and edge rows removed.
C18_ForcedDeleteRemoves ==
    [][ (/\ last'.op = "delete_workflow"
         /\ last'.force
         /\ last'.id # NoNode
         /\ \A i \in 1..Len(edges) : edges[i].target # last'.id)
        => (/\ DOMAIN nodes' \cap ClosureOf(edges, last'.id) = {}
            /\ \A i \in 1..Len(edges') :
                  edges'[i].source \notin ClosureOf(edges, last'.id)
            /\ get_active_workflow(context).workflow_id = last'.id
                  => get_active_workflow(context') = NoWorkflow
            /\ last'.deleted_nodes
                  = Cardinality(DOMAIN nodes) - Cardinality(DOMAIN nodes')
            /\ last'.deleted_edges = Len(edges) - Len(edges')) ]_vars

\* the same for workflows without a cycle below the root
C18_ForcedDeleteAcyclic ==
    [][ (/\ last'.op = "delete_workflow"
         /\ last'.force
         /\ last'.id # NoNode
         /\ DownstreamRecursionEnds(edges, last'.id))
        => (/\ last'.ret = "ok"
            /\ DOMAIN nodes' \cap ClosureOf(edges, last'.id) = {}
            /\ \A i \in 1..Len(edges') :
                  edges'[i].source \notin ClosureOf(edges, last'.id)
            /\ \A i \in 1..Len(versions') :
                  versions'[i].node_id \notin ClosureOf(edges, last'.id)
            /\ get_active_workflow(context).workflow_id = last'.id
                  => get_active_workflow(context') = NoWorkflow
            /\ last'.deleted_nodes
                  = Cardinality(DOMAIN nodes) - Cardinality(DOMAIN nodes')
            /\ last'.deleted_edges = Len(edges) - Len(edges')) ]_vars

\* --------------------------------------------------------------------- C19
\* the workflows of the graph that have the template a keyword names
WorkflowsOfKeyword(ns, es, text) ==
    {w \in DOMAIN list_all_workflows(ns, es) :
        list_all_workflows(ns, es)[w].template = TYPE_KEYWORDS(text)}

\* C19: a switch_workflow whose identifier is a type keyword naming the
\* template of more than one workflow, and is the title of no workflow, fails
\* with exactly those workflows as matches and leaves the context as it was.
C19_AmbiguousCheckout ==
    [][ (/\ last'.op = "switch_workflow"
         /\ last'.ident.kind = "text"
         /\ TYPE_KEYWORDS(last'.ident.text) # None
         /\ Cardinality(WorkflowsOfKeyword(nodes, edges, last'.ident.text)) > 1
         /\ \A w \in DOMAIN list_all_workflows(nodes, edges) :
               Label[w] # last'.ident.text)
        => (/\ last'.ret = "AmbiguousMatch"
            /\ last'.matches = WorkflowsOfKeyword(nodes, edges, last'.ident.text)
            /\ context' = context) ]_vars

\* C19 witness: "bug" was refused as ambiguous between two bugfix workflows
\* while another checkout had made a workflow active before
C19_Witness ==
    /\ last.op = "switch_workflow"
    /\ last.ident.text = "bug"
    /\ last.ret = "AmbiguousMatch"
    /\ Cardinality(last.matches) = 2
    /\ get_active_workflow(context) # NoWorkflow

\* --------------------------------------------------------------------- C20
\* the roots of the graph: the nodes without an edge from another node
GraphRoots(ns, es) ==
    {n \in DOMAIN ns :
        \A i \in 1..Len(es) : es[i].target # n \/ es[i].source = n}

C21_RootIffNoIncoming ==
    \A n \in DOMAIN nodes :
        (n \in DOMAIN list_all_workflows(nodes, edges))
            <=> (\A i \in 1..Len(edges) : edges[i].target # n)

\* one direction holds on every graph: a node without incoming edges is listed
C21_NoIncomingIsListed ==
    \A n \in DOMAIN nodes :
        (\A i \in 1..Len(edges) : edges[i].target # n)
            => n \in DOMAIN list_all_workflows(nodes, edges)

\* --------------------------------------------------------------------- C22
\* the node type STEP_MAPPINGS[template] gives a step name, None if none
StepType(template, step) ==
    LET mapping == IF template \in DOMAIN STEP_MAPPINGS
                   THEN STEP_MAPPINGS[template] ELSE <<>>
        hits == {i \in 1..Len(mapping) : mapping[i][1] = step}
    IN  IF hits = {} THEN None ELSE mapping[CHOOSE i \in hits : TRUE][2]

\* C22: after a successful switch_workflow the steps of the active workflow
\* are the rebuilt ones: every recorded step names an existing node of that
\* workflow whose type is the step's type in the template, and every step
\* whose type has a node in the workflow is recorded.
C22_StepsRebuilt ==
    [][ (last'.op = "switch_workflow" /\ last'.ret = "ok")
        => LET aw == get_active_workflow(context')
           IN  /\ aw.workflow_id = last'.id
               /\ \A step \in StepNames :
                     /\ aw.steps[step] # NoNode
                           => /\ aw.steps[step] \in WorkflowNodes(nodes, edges, last'.id)
                              /\ nodes[aw.steps[step]].type = StepType(aw.template, step)
                     /\ (\E n \in WorkflowNodes(nodes, edges, last'.id) :
                            nodes[n].type = StepType(aw.template, step))
                           => aw.steps[step] # NoNode ]_vars

\* --------------------------------------------------------------------- C23
\* C23: a call of on_node_finalized leaves no new node without an edge from
\* the finalized node to it.
C23_TransitionAtomic ==
    [][ (last'.op = "on_node_finalized")
        => \A n \in DOMAIN nodes' \ DOMAIN nodes :
              \E i \in 1..Len(edges') :
                  edges'[i].source = last'.id /\ edges'[i].target = n ]_vars

\* --------------------------------------------------------------------- C24
\* C24: whenever no finalize_step is in progress, the versions of every node
\* are 1, 2, ..., n without a repeat, and its current_version is n, the
\* number of its node_versions rows.
C24_FinalizeSerialized ==
    (\A p \in Procs : inflight[p].pc = "idle")
        => \A id \in DOMAIN nodes :
              LET vs == SelectVersions(versions, id)
              IN  /\ \A i \in 1..Len(vs) : vs[i] = i
                  /\ nodes[id].current_version = Len(vs)

\* --------------------------------------------------------------------- C25
\* C25: a write of add_workflow_step or update_current_step changes only what
\* it touches: every other step of the persisted active workflow is, after
\* the write, what the file held just before it, and update_current_step
\* changes no step at all.
C25_ContextMerge ==
    [][ (last'.op \in {"add_workflow_step", "update_current_step"}
         /\ last'.ret = "ok")
        => \A s \in StepNames :
              (last'.op = "update_current_step" \/ s # last'.step)
                 => get_active_workflow(context').steps[s]
                      = get_active_workflow(context).steps[s] ]_vars

\* --------------------------------------------------------------------- C26
\* C26: every edge of the graph has an edge_type of EdgeType.
C26_EdgeTypeKnown ==
    \A i \in 1..Len(edges) : edges[i].edge_type \in EdgeType

\* --------------------------------------------------------------------- C27
\* the types of the nodes in the order the engine created them
StageTypes == [i \in 1..Cardinality(DOMAIN nodes) |-> nodes[i].type]

IsPrefix(p, q) == Len(p) <= Len(q) /\ \A i \in 1..Len(p) : p[i] = q[i]

StandardStages ==
    <<"aggregate", "requirement", "design", "implementation", "test",
      "code_review", "documentation">>

BugfixStages == <<"bug_report", "bug_analysis", "bug_fix", "bug_verify">>

\* the stages so far are the first stages of the pipeline, and all of them
\* once the newest node's type is terminal
FollowsPipeline(stages) ==
    StageTypes[1] = stages[1]
        => /\ IsPrefix(StageTypes, stages)
           /\ get_next_type(StageTypes[Len(StageTypes)]) = None
                 => StageTypes = stages

\* C27: following next_type from "aggregate" visits the 7 stages aggregate,
\* requirement, design, implementation, test, code_review, documentation
\* before a terminal stage, and from "bug_report" the 4 stages bug_report,
\* bug_analysis, bug_fix, bug_verify.
C27_Pipelines == FollowsPipeline(StandardStages) /\ FollowsPipeline(BugfixStages)

\* the bugfix half holds
C27_BugfixPipeline == FollowsPipeline(BugfixStages)

\* --------------------------------------------------------------------- C28
\* C28: update_step_draft succeeds on the node of the step whatever state the
\* node is in, and leaves it a draft with the given text; a node without a
\* draft source gets "manual_created" when its current_version is 0, else
\* "manual_modified" with draft_based_on_version = current_version; a source
\* already set, and its based-on version, stay.
C28_UpdateDraft ==
    [][ (last'.op = "update_step_draft" /\ last'.id \in DOMAIN nodes)
        => LET old == nodes[last'.id]
               new == nodes'[last'.id]
           IN  /\ last'.ret = "ok"
               /\ new.draft_content \in DraftTexts
               /\ new.is_draft
               /\ new.content = old.content
               /\ new.current_version = old.current_version
               /\ old.draft_source_type = None /\ old.current_version = 0
                     => /\ new.draft_source_type = "manual_created"
                        /\ new.draft_based_on_version = old.draft_based_on_version
               /\ old.draft_source_type = None /\ old.current_version # 0
                     => /\ new.draft_source_type = "manual_modified"
                        /\ new.draft_based_on_version = old.current_version
               /\ old.draft_source_type # None
                     => /\ new.draft_source_type = old.draft_source_type
                        /\ new.draft_based_on_version = old.draft_based_on_version
    ]_vars

\* C28 witness: a finalized node without a pending draft got a draft that is
\* recorded as a modification of its current version
C28_Witness ==
    /\ last.op = "update_step_draft"
    /\ last.ret = "ok"
    /\ nodes[last.id].draft_source_type = "manual_modified"
    /\ nodes[last.id].current_version >= 1
    /\ nodes[last.id].draft_based_on_version = nodes[last.id].current_version
    /\ nodes[last.id].draft_content \in DraftTexts

\* --------------------------------------------------------------------- C29
\* the step names of a template that follow, in the template's order, a step
\* recorded for node id
NextStepNames(workflow, id) ==
    LET mapping == IF workflow.template \in DOMAIN STEP_MAPPINGS
                   THEN STEP_MAPPINGS[workflow.template] ELSE <<>>
    IN  {mapping[i + 1][1] : i \in {j \in 1..(Len(mapping) - 1) :
                                       workflow.steps[mapping[j][1]] = id}}

StepsRecordSuccessor ==
    (/\ last'.op = "finalize_step"
     /\ last'.ret = "ok"
     /\ last'.new # NoNode)
    => \A step \in NextStepNames(get_active_workflow(context), last'.id) :
          /\ get_active_workflow(context').steps[step] = last'.new
          /\ get_active_workflow(context').current_step = step

\* C29: when finalize_step succeeds and the engine creates a successor, the
\* active workflow records the successor under the step name that follows
\* the finalized step in its template, and current_step is that step name.
C29_SuccessorRecorded == [][StepsRecordSuccessor]_vars

\* the same for the templates whose step order is the order of the flow rules
C29_SuccessorRecordedTyped ==
    [][get_active_workflow(context).template \in {"standard", "bugfix"}
         => StepsRecordSuccessor]_vars

\* --------------------------------------------------------------------- C30
\* C30: every node get_parent_nodes returns is the source of an edge into
\* the node returned before it (into node_id for the first one) and differs
\* from that node, so the list runs from the nearest ancestor outward and no
\* self-edge is followed; with recursive=False at most one node is returned.
C30_ParentsBackward ==
    (last.op = "get_parent_nodes") =>
        /\ \A i \in 1..Len(last.parents) :
              LET current_id == IF i = 1 THEN last.id ELSE last.parents[i - 1]
              IN  /\ last.parents[i] # current_id
                  /\ \E k \in 1..Len(edges) :
                        /\ edges[k].source = last.parents[i]
                        /\ edges[k].target = current_id
        /\ ~last.recursive => Len(last.parents) <= 1

\* C30 witness: node 2 has a self-edge stored before the edge 1 -> 2, and
\* 3 -> 1 is stored; the walk from 2 skipped the self-edge and returned the
\* parent 1 and then the grandparent 3
C30_Witness ==
    /\ last.op = "get_parent_nodes"
    /\ last.id = 2
    /\ last.recursive
    /\ Len(edges) = 3
    /\ edges[1].source = 2 /\ edges[1].target = 2
    /\ edges[2].source = 1 /\ edges[2].target = 2
    /\ edges[3].source = 3 /\ edges[3].target = 1
    /\ last.parents = <<1, 3>>

\* the non-recursive call on a node with a parent and a grandparent returned
\* the parent alone
C30_WitnessNearest ==
    /\ last.op = "get_parent_nodes"
    /\ last.id = 2
    /\ ~last.recursive
    /\ Len(edges) = 2
    /\ edges[1].source = 1 /\ edges[1].target = 2
    /\ edges[2].source = 3 /\ edges[2].target = 1
    /\ last.parents = <<1>>

\* --------------------------------------------------------------------- C31
\* C31: every ancestor lookup (find_aggregate_ancestor of aggregate_helper
\* and of finalize_helper, find_root_node) returns on every stored graph,
\* graphs with cycles and self-edges included.
C31_AncestorLookupsReturn ==
    (last.op \in {"aggregate_helper.find_aggregate_ancestor",
                  "finalize_helper.find_aggregate_ancestor",
                  "find_root_node"})
    => last.returned

\* the two lookups of finalize_helper return on every stored graph
C31_FinalizeHelperReturns ==
    (last.op \in {"finalize_helper.find_aggregate_ancestor", "find_root_node"})
    => last.returned

\* --------------------------------------------------------------------- C32
\* the stores that differ from ns in draft_content values only
DraftVariants(ns) ==
    {ns2 \in [DOMAIN ns -> UNION {{[ns[i] EXCEPT !.draft_content = d] :
                                      d \in {None, "", "D", "E"}} : i \in DOMAIN ns}] :
        \A i \in DOMAIN ns : ns2[i] = [ns[i] EXCEPT !.draft_content = ns2[i].draft_content]}

\* C32: on every stored graph, on_node_finalized gives the same outcome, the
\* same generation block and the same prompt text whatever the draft_content
\* values of the nodes are.
C32_DraftIndependent ==
    \A id \in DOMAIN nodes, ns2 \in DraftVariants(nodes) :
        /\ \A ai \in BOOLEAN :
             \A nid \in NewNodeIds(nodes, edges, id),
                eid \in NewEdgeIds(nodes, edges, id) :
                LET a == Transition(nodes, edges, id, ai, nid, eid)
                    b == Transition(ns2, edges, id, ai, nid, eid)
                IN  /\ a.ret = b.ret /\ a.new = b.new /\ a.gen = b.gen
                    /\ a.edges = b.edges
                    /\ a.gen = "enabled"
                         => build_ai_prompt(a.nodes, a.edges, id, "R")
                              = build_ai_prompt(b.nodes, b.edges, id, "R")
        /\ \A r \in RuleTexts :
              build_ai_prompt(ns2, edges, id, r) = build_ai_prompt(nodes, edges, id, r)

\* C32 witness: on_node_finalized created a successor with generation
\* enabled for a node that has content and a pending draft
C32_Witness ==
    /\ last.op = "on_node_finalized"
    /\ last.ret = "created"
    /\ last.gen = "enabled"
    /\ nodes[last.id].draft_content = "D"
    /\ nodes[last.id].content # "D"

\* the prompt was built for a node whose parent has a pending draft
C32_WitnessAncestor ==
    /\ last.op = "build_ai_prompt"
    /\ last.ret = "ok"
    /\ \E i \in 1..Len(edges) :
          /\ edges[i].target = last.id
          /\ edges[i].source # last.id
          /\ edges[i].source \in DOMAIN nodes
          /\ nodes[edges[i].source].draft_content = "D"

\* --------------------------------------------------------------------- C33
\* C33: the list get_parent_nodes(id) returns holds neither the queried id
\* nor any node twice, on every stored graph.
C33_ParentsExcludeSelf ==
    (last.op = "get_parent_nodes") =>
        /\ \A i \in 1..Len(last.parents) : last.parents[i] # last.id
        /\ \A i, j \in 1..Len(last.parents) :
              last.parents[i] = last.parents[j] => i = j

\* no node is returned twice
C33_ParentsDistinct ==
    (last.op = "get_parent_nodes") =>
        \A i, j \in 1..Len(last.parents) :
            last.parents[i] = last.parents[j] => i = j

\* --------------------------------------------------------------------- C34
\* C34: on every stored graph the downstream-closure computation of
\* delete_workflow and of list_workflows comes to its end, also when a cycle
\* or a self-edge is reachable from the root: neither call ends in a
\* RecursionError.
C34_ClosureReturns ==
    (last.op \in {"delete_workflow", "list_workflows"})
    => last.ret # "RecursionError"

\* both calls return their result when no cycle is reachable from the roots
\* they start from
C34_ClosureReturnsAcyclic ==
    [][ (/\ last'.op \in {"delete_workflow", "list_workflows"}
         /\ \A n \in DOMAIN nodes : DownstreamRecursionEnds(edges, n))
        => last'.ret # "RecursionError" ]_vars

\* --------------------------------------------------------------------- C35
\* C35: after a successful delete_workflow every remaining edge has its
\* source and its target among the remaining nodes, the edges that entered
\* the deleted closure from outside included.
C35_NoDanglingEdge ==
    [][ (last'.op = "delete_workflow" /\ last'.ret = "ok")
        => \A i \in 1..Len(edges') :
              /\ edges'[i].source \in DOMAIN nodes'
              /\ edges'[i].target \in DOMAIN nodes' ]_vars

\* the source of every remaining edge remains
C35_SourcesRemain ==
    [][ (last'.op = "delete_workflow" /\ last'.ret = "ok")
        => \A i \in 1..Len(edges') : edges'[i].source \in DOMAIN nodes' ]_vars

\* the same statement for the delete of a root (a node without incoming
\* edges); an edge from a second root into the closure refutes it too
C35_NoDanglingEdgeRoot ==
    [][ (/\ last'.op = "delete_workflow" /\ last'.ret = "ok"
         /\ \A i \in 1..Len(edges) : edges[i].target # last'.id)
        => \A i \in 1..Len(edges') : edges'[i].target \in DOMAIN nodes' ]_vars

\* --------------------------------------------------------------------- C36
\* every step name of the active workflow's template has a recorded node
\* that is stored and finalized
DriveComplete ==
    LET workflow == get_active_workflow(context)
    IN  /\ workflow # NoWorkflow
        /\ workflow.template \in DOMAIN STEP_MAPPINGS
        /\ \A i \in 1..Len(STEP_MAPPINGS[workflow.template]) :
              LET n == workflow.steps[STEP_MAPPINGS[workflow.template][i][1]]
              IN  /\ n \in DOMAIN nodes
                  /\ ~nodes[n].is_draft
                  /\ nodes[n].current_version >= 1

\* C36: a workflow created from any template of STEP_MAPPINGS, whose current
\* step is drafted and committed again and again, eventually has a recorded,
\* finalized node under every step name of its template.
C36_DriveCompletes == <>DriveComplete

\* the workflows created from the templates standard and bugfix are driven
\* to their end
C36_TypedTemplatesComplete ==
    [](/\ last.op = "create_workflow_from_template"
       /\ get_active_workflow(context).template \in {"standard", "bugfix"}
       => <>DriveComplete)

\* the step "implementation" of a feature workflow never gets a node
C36_FeatureNeverImplements ==
    (get_active_workflow(context).template = "feature")
        => get_active_workflow(context).steps["implementation"] = NoNode

\* --------------------------------------------------------------------- C37
\* the successors the engine created for node n: the targets of its
\* "references" edges that have the next type of n's rule
EngineSuccessorEdges(n) ==
    {i \in 1..Len(edges) :
        /\ edges[i].source = n
        /\ edges[i].target \in DOMAIN nodes
        /\ edges[i].target # n
        /\ nodes[edges[i].target].type = get_next_type(nodes[n].type)}

\* C37: however two on_node_finalized calls for the same node interleave, at
\* most one successor of the rule's next type and at most one edge to it are
\* created for the node.
C37_OneSuccessor ==
    \A n \in DOMAIN nodes :
        /\ Cardinality(EngineSuccessorEdges(n)) <= 1
        /\ Cardinality({edges[i].target : i \in EngineSuccessorEdges(n)}) <= 1

\* --------------------------------------------------------------------- C38
\* C38: update_step_draft leaves the content and the current_version of the
\* step's node as they were, appends no node_versions row, and changes no
\* other node and no edge.
C38_UpdateDraftFrame ==
    [][ (last'.op = "update_step_draft")
        => /\ edges' = edges
           /\ versions' = versions
           /\ DOMAIN nodes' = DOMAIN nodes
           /\ \A n \in DOMAIN nodes :
                 /\ n # last'.id => nodes'[n] = nodes[n]
                 /\ nodes'[n].content = nodes[n].content
                 /\ nodes'[n].current_version = nodes[n].current_version
    ]_vars

\* C38 witness: a draft was written for a finalized node that has content, a
\* version row and an edge to a second node
C38_Witness ==
    /\ last.op = "update_step_draft"
    /\ last.ret = "ok"
    /\ has_content(nodes[last.id].content)
    /\ nodes[last.id].content # nodes[last.id].draft_content
    /\ \E i \in 1..Len(versions) : versions[i].node_id = last.id
    /\ \E i \in 1..Len(edges) :
          /\ edges[i].source = last.id
          /\ edges[i].target \in DOMAIN nodes \ {last.id}

\* --------------------------------------------------------------------- C39
\* the persisted context names stored nodes only: the active workflow id and
\* every node id of the active workflow's steps
ContextNamesStoredNodes ==
    /\ normalize_context(context).active_workflow_id \in DOMAIN nodes \cup {NoNode}
    /\ \A step \in StepNames :
          get_active_workflow(context).steps[step] \in DOMAIN nodes \cup {NoNode}

\* C39: in every state reached through checkouts and delete_workflow calls,
\* the active workflow id, when set, is the id of a stored node, and so is
\* every node id in the steps of the active workflow.
C39_ContextNamesStoredNodes == ContextNamesStoredNodes

\* the same statement for the delete of a root (a node without incoming
\* edges); a root that shares a step node with the active workflow refutes it
C39_RootDeleteKeepsContext ==
    [][ (/\ last'.op = "delete_workflow" /\ last'.ret = "ok"
         /\ \A i \in 1..Len(edges) : edges[i].target # last'.id
         /\ ContextNamesStoredNodes)
        => ContextNamesStoredNodes' ]_vars

\* the delete of the active workflow's own root leaves no active workflow
C39_ActiveRootDeleteClears ==
    [][ (/\ last'.op = "delete_workflow" /\ last'.ret = "ok"
         /\ last'.id = get_active_workflow(context).workflow_id)
        => /\ get_active_workflow(context') = NoWorkflow
           /\ normalize_context(context').active_workflow_id = NoNode ]_vars

====
